---------------------------- MODULE Spec2Model ----------------------------
(***************************************************************************)
(* A model of vortex (sheenazien8/vortex), a fluent HTTP client: the       *)
(* Client configuration and its builder calls, the dispatch pipeline of    *)
(* doRequest (body preparation, request construction, headers, interceptor *)
(* chain, transport, hooks, streaming consumer, decoding, the Response)    *)
(* and Request.GenerateCurlCommand.                                        *)
(*                                                                         *)
(* Go strings are TLA+ strings; http.Header and url.Values are functions   *)
(* from keys to sequences of values; a Go map is a function whose domain   *)
(* is its key set, and ranging over it visits the keys in an order the     *)
(* runtime chooses, so every such loop takes its order from a \E.          *)
(* An optional value (a pointer, an error) is <<>> or <<v>>.               *)
(***************************************************************************)
EXTENDS Integers, Sequences, FiniteSets, TLC

VARIABLES
    \* ---- Client (main.go:30-44)
    headers,        \* c.headers       : canonical key -> sequence of values
    queryParams,    \* c.queryParams   : key -> sequence of values
    output,         \* c.output        : <<>> (nil) or <<target>>
    middleware,     \* c.middleware    : sequence of interceptors
    hooks,          \* c.hooks         : sequence of hooks
    streamHandler,  \* c.streamHandler : <<>> (nil) or <<consumer>>
    formFilePath,   \* c.formFilePath  : field -> path
    formData,       \* c.formData      : field -> value
    formFile,       \* c.formFile      : field -> open file handle
    insecure,       \* c.insecure
    retries,        \* c.retries
    allocated,      \* which of the three form maps are not nil
    transport,      \* c.httpClient.Transport
    \* ---- the world outside the client
    handles,        \* caller-owned open files : handle -> [closed, pos]
    target,         \* what the caller's output target holds
    fds,            \* the files writeFormData opened in the last dispatch
    process,        \* "running", or "exited" once os.Exit was called
    \* ---- one dispatch in progress (the locals of doRequest and of the
    \*      handler closure of createHandler)
    pc,             \* where the dispatch stands
    call,           \* method, jsonBody and the *http.Request built
    chain,          \* the composed interceptor chain, outermost first
    depth,          \* how many interceptor handlers have been entered
    resp,           \* the *http.Response of the transport, <<>> before
    hookQueue,      \* the hooks the range loop still has to call
    recorder,       \* the httptest.ResponseRecorder
    request,        \* var request Request (the descriptor)
    \* ---- what the caller got back from the last dispatch
    ret,            \* [resp |-> <<>> or <<Response>>, err |-> <<>> or <<e>>]
    \* ---- observations (history, written by nothing the program reads)
    trace,          \* the events of the dispatch in the order they happened
    failure,        \* the failure the dispatch met, "" when none
    rawResp,        \* the response as the transport returned it
    lastHeader,     \* canonical header key -> value last written by a setter
    lastQuery,      \* query key -> value last handed to a query setter
    \* ---- the curl renderer on a descriptor of its own
    curlReq,        \* the descriptor GenerateCurlCommand is called on
    curlOut         \* the strings the calls on curlReq returned, in order

clientVars == <<headers, queryParams, output, middleware, hooks, streamHandler,
                formFilePath, formData, formFile, insecure, retries, allocated>>
cfgVars   == <<clientVars, transport>>
worldVars == <<handles, target, fds, process>>
dispVars  == <<pc, call, chain, depth, resp, hookQueue, recorder, request>>
obsVars   == <<trace, failure, rawResp>>
setVars   == <<lastHeader, lastQuery>>
curlVars  == <<curlReq, curlOut>>
vars      == <<cfgVars, worldVars, dispVars, ret, obsVars, setVars, curlVars>>

-----------------------------------------------------------------------------
(* Strings, sequences and maps *)

None == <<>>
Some(x) == <<x>>

EmptyMap == [k \in {} |-> ""]

\* m with m[k] = v (a Go map assignment m[k] = v)
MapPut(m, k, v) == [x \in DOMAIN m \cup {k} |-> IF x = k THEN v ELSE m[x]]

\* All orders in which a range loop may visit the key set S
Orders(S) ==
    {o \in [1..Cardinality(S) -> S] : \A i, j \in DOMAIN o : i # j => o[i] # o[j]}

Range(s) == {s[i] : i \in DOMAIN s}

Char(s, i) == SubSeq(s, i, i)

\* strings.Index(s, sub) >= 0
Contains(s, sub) ==
    \E i \in 1..(Len(s) - Len(sub) + 1) : SubSeq(s, i, i + Len(sub) - 1) = sub

HasPrefix(s, p) == Len(s) >= Len(p) /\ SubSeq(s, 1, Len(p)) = p

\* The position of the first c in s, 0 when there is none
IndexOf(s, c) ==
    LET at == {i \in 1..Len(s) : Char(s, i) = c}
    IN  IF at = {} THEN 0 ELSE CHOOSE i \in at : \A j \in at : i <= j

LowerLetters == "abcdefghijklmnopqrstuvwxyz"
UpperLetters == "ABCDEFGHIJKLMNOPQRSTUVWXYZ"

IsLower(c) == IndexOf(LowerLetters, c) > 0
IsUpper(c) == IndexOf(UpperLetters, c) > 0
ToUpper(c) == IF IsLower(c) THEN Char(UpperLetters, IndexOf(LowerLetters, c)) ELSE c
ToLower(c) == IF IsUpper(c) THEN Char(LowerLetters, IndexOf(UpperLetters, c)) ELSE c

RECURSIVE LowerString(_)
LowerString(s) ==
    IF s = "" THEN "" ELSE ToLower(Char(s, 1)) \o LowerString(SubSeq(s, 2, Len(s)))

Digits == "0123456789"

\* strconv's base 10 formatting, as fmt.Sprintf("%v", n) and "%d" print an int
RECURSIVE FormatInt(_)
FormatInt(n) ==
    IF n < 0 THEN "-" \o FormatInt(-n)
    ELSE IF n < 10 THEN Char(Digits, n + 1)
    ELSE FormatInt(n \div 10) \o Char(Digits, (n % 10) + 1)

\* fmt.Sprintf("%v", value) for the kinds of value a caller puts in a
\* map[string]interface{}: a string prints as itself, an int in base 10,
\* a bool as true or false
Sprintv(value) ==
    CASE value.kind = "string" -> value.s
      [] value.kind = "int"    -> FormatInt(value.n)
      [] value.kind = "bool"   -> IF value.b THEN "true" ELSE "false"


-----------------------------------------------------------------------------
(* http.Header and url.Values *)

RECURSIVE CanonicalFrom(_, _, _)
CanonicalFrom(s, i, upper) ==
    IF i > Len(s) THEN ""
    ELSE LET c == Char(s, i)
         IN  (IF upper THEN ToUpper(c) ELSE ToLower(c))
                 \o CanonicalFrom(s, i + 1, c = "-")

\* textproto.CanonicalMIMEHeaderKey, which Header.Set, Add and Get apply to
\* the key: the first letter and every letter after a hyphen in upper case,
\* the others in lower case; a key holding a space is left as it is
canonicalMIMEHeaderKey(s) ==
    IF Contains(s, " ") THEN s ELSE CanonicalFrom(s, 1, TRUE)

\* The header keys the model meets, each with its canonical form, computed
\* once
HeaderKeys == {"Content-Type", "content-type", "X-Test"}
CanonicalKeys ==
    [k \in HeaderKeys \cup {"Accept"} |-> canonicalMIMEHeaderKey(k)]

CanonicalMIMEHeaderKey(s) ==
    IF s \in DOMAIN CanonicalKeys THEN CanonicalKeys[s] ELSE canonicalMIMEHeaderKey(s)

\* http.Header.Add: the value is appended to the key's values
HeaderAdd(h, key, value) ==
    LET k == CanonicalMIMEHeaderKey(key)
    IN  MapPut(h, k, (IF k \in DOMAIN h THEN h[k] ELSE <<>>) \o <<value>>)

\* A Set that appends, as Add does
HeaderSetAppending(h, key, value) ==
    LET k == CanonicalMIMEHeaderKey(key)
    IN  MapPut(h, k, (IF k \in DOMAIN h THEN h[k] ELSE <<>>) \o <<value>>)

\* http.Header.Set: the value replaces the key's values
HeaderSet(h, key, value) == MapPut(h, CanonicalMIMEHeaderKey(key), <<value>>)

\* http.Header.Get: the key's first value, "" when it has none
HeaderGet(h, key) ==
    LET k == CanonicalMIMEHeaderKey(key)
    IN  IF k \in DOMAIN h /\ Len(h[k]) > 0 THEN h[k][1] ELSE ""

\* url.Values.Set: keys are taken as they are
ValuesSet(v, key, value) == MapPut(v, key, <<value>>)

\* url.Values.Get
ValuesGet(v, key) == IF key \in DOMAIN v /\ Len(v[key]) > 0 THEN v[key][1] ELSE ""

-----------------------------------------------------------------------------
(* The inputs of the builder calls *)

HeaderValues == {"application/json", "text/plain", ""}
\* The maps with at most two entries a caller may hand to SetHeaders and
\* SetQueryParams
SmallMaps(K, V) ==
    UNION {[D -> V] : D \in {D \in SUBSET K : Cardinality(D) <= 2}}

-----------------------------------------------------------------------------
(* The builder calls, main.go:46-141 and 340-343 *)

\* What the observation of the header setters records for one write
LowerKeys == [k \in HeaderKeys |-> LowerString(k)]

RecordHeader(last, key, value) ==
    LET k == LowerKeys[key]
    IN  MapPut(last, k, [value |-> value, key |-> key,
                         recased |-> k \in DOMAIN last /\ last[k].key # key])

RECURSIVE SetEach(_, _, _, _)
\* for key, value := range m { Set(key, value) } with the loop's order ord
SetEach(Set(_, _, _), acc, m, ord) ==
    IF ord = <<>> THEN acc
    ELSE SetEach(Set, Set(acc, ord[1], m[ord[1]]), m, Tail(ord))

QuerySetAny(v, key, value) == ValuesSet(v, key, Sprintv(value))
RecordQuery(last, key, value) == MapPut(last, key, value)

SetHeader(key, value) ==
    /\ headers' = HeaderSet(headers, key, value)
    /\ lastHeader' = RecordHeader(lastHeader, key, value)
    /\ UNCHANGED <<queryParams, output, middleware, hooks, streamHandler,
                   formFilePath, formData, formFile, insecure, transport, retries, allocated>>
    /\ UNCHANGED <<worldVars, dispVars, ret, obsVars, lastQuery, curlVars>>

SetHeaders(m) ==
    \E ord \in Orders(DOMAIN m) :
        /\ headers' = SetEach(HeaderSet, headers, m, ord)
        /\ lastHeader' = SetEach(RecordHeader, lastHeader, m, ord)
        /\ UNCHANGED <<queryParams, output, middleware, hooks, streamHandler,
                       formFilePath, formData, formFile, insecure, transport, retries, allocated>>
        /\ UNCHANGED <<worldVars, dispVars, ret, obsVars, lastQuery, curlVars>>

SetQueryParam(key, value) ==
    /\ queryParams' = ValuesSet(queryParams, key, value)
    /\ lastQuery' = RecordQuery(lastQuery, key, [kind |-> "string", s |-> value])
    /\ UNCHANGED <<headers, output, middleware, hooks, streamHandler,
                   formFilePath, formData, formFile, insecure, transport, retries, allocated>>
    /\ UNCHANGED <<worldVars, dispVars, ret, obsVars, lastHeader, curlVars>>

SetQueryParams(params) ==
    \E ord \in Orders(DOMAIN params) :
        /\ queryParams' = SetEach(QuerySetAny, queryParams, params, ord)
        /\ lastQuery' = SetEach(RecordQuery, lastQuery, params, ord)
        /\ UNCHANGED <<headers, output, middleware, hooks, streamHandler,
                       formFilePath, formData, formFile, insecure, transport, retries, allocated>>
        /\ UNCHANGED <<worldVars, dispVars, ret, obsVars, lastHeader, curlVars>>

\* The objects a caller may hand to SetQueryParamFromInterface: the struct of
\* TestSetQueryParamFromInterface, a struct of one integer field, a number, a
\* slice, a channel (which encoding/json cannot serialize) and nil
IfaceArgs ==
    {[kind |-> "struct",
      fields |-> [k \in {"key1", "key2"} |->
                     IF k = "key1" THEN [kind |-> "string", s |-> "value1"]
                     ELSE [kind |-> "int", n |-> 2]]],
     [kind |-> "struct", fields |-> [k \in {"key"} |-> [kind |-> "int", n |-> 10]]],
     [kind |-> "number"], [kind |-> "slice"], [kind |-> "chan"], [kind |-> "nil"]}

\* jsonParams, _ := json.Marshal(params): the error is dropped, and jsonParams
\* is empty when there was one
MarshalDropping(params) ==
    CASE params.kind = "struct" -> [json |-> "object", fields |-> params.fields]
      [] params.kind = "number" -> [json |-> "number", fields |-> << >>]
      [] params.kind = "slice"  -> [json |-> "array",  fields |-> << >>]
      [] params.kind = "nil"    -> [json |-> "null",   fields |-> << >>]
      [] OTHER                  -> [json |-> "",       fields |-> << >>]

\* json.Unmarshal(jsonParams, &queryParams) into a map[string]interface{}: an
\* object gives its fields, null gives the nil map, anything else is an error
UnmarshalMap(j) ==
    CASE j.json = "object" -> [err |-> None, m |-> j.fields]
      [] j.json = "null"   -> [err |-> None, m |-> << >>]
      [] j.json = ""       -> [err |-> Some("unexpected end of JSON input"), m |-> << >>]
      [] OTHER             -> [err |-> Some("json: cannot unmarshal into Go value of type map[string]interface {}"),
                               m |-> << >>]

\* SetQueryParamFromInterface, main.go:124-136: on an Unmarshal error
\* log.Fatalf writes the message and calls os.Exit(1)
SetQueryParamFromInterface(params) ==
    LET parsed == UnmarshalMap(MarshalDropping(params))
    IN  IF parsed.err # None
        THEN /\ process' = "exited"
             /\ UNCHANGED <<cfgVars, handles, target, fds, dispVars, ret, obsVars,
                            setVars, curlVars>>
        ELSE \E ord \in Orders(DOMAIN parsed.m) :
                /\ queryParams' = SetEach(QuerySetAny, queryParams, parsed.m, ord)
                /\ lastQuery' = SetEach(RecordQuery, lastQuery, parsed.m, ord)
                /\ UNCHANGED <<headers, output, middleware, hooks, streamHandler,
                               formFilePath, formData, formFile, insecure, transport,
                               retries, allocated>>
                /\ UNCHANGED <<worldVars, dispVars, ret, obsVars, lastHeader, curlVars>>


\* The interceptors, hooks and streaming consumers a caller registers, by what
\* they do with what they are handed:
\*   an interceptor's handler runs its own logic, then either calls next once
\*   and runs its own logic again ("pass") or returns without calling next
\*   ("short");
\*   a hook is handed the *http.Response itself: it may only look at it
\*   ("observe"), assign its StatusCode ("setStatus") or read its Body to the
\*   end ("drain");
\*   a consumer reads the Body to the end and returns nil ("read"), returns
\*   nil without reading ("skip") or returns an error ("fail").
InterceptorKinds == {"pass", "short"}
HookKinds        == {"observe", "setStatus", "drain"}
ConsumerKinds    == {"read", "skip", "fail"}

\* Opt.Retries, as New is handed it
RetryCounts == {0, 3}

MaxMiddleware == 2
MaxHooks      == 2

FormFields == {"file1", "file2"}
FormPaths  == {"/tmp/a.txt", "/tmp/none", "/tmp"}
DataFields == {"field1", "field2"}
DataValues == {"value1", ""}
\* The open files a caller may hand to SetFormFile: an *os.File, a file of
\* another type that has a Name method (the tests' MockFile)
OsFiles      == {"osfile"}
NamedFiles   == {"mockfile"}
\* and a multipart.File that has no Name method
UnnamedFiles == {"section"}
OpenFiles    == OsFiles \cup NamedFiles \cup UnnamedFiles

UseMiddleware(ms) ==
    /\ Len(middleware) + Len(ms) <= MaxMiddleware
    /\ middleware' = middleware \o ms
    /\ UNCHANGED <<headers, queryParams, output, hooks, streamHandler,
                   formFilePath, formData, formFile, insecure, transport, retries, allocated>>
    /\ UNCHANGED <<worldVars, dispVars, ret, obsVars, setVars, curlVars>>

UseHook(hs) ==
    /\ Len(hooks) + Len(hs) <= MaxHooks
    /\ hooks' = hooks \o hs
    /\ UNCHANGED <<headers, queryParams, output, middleware, streamHandler,
                   formFilePath, formData, formFile, insecure, transport, retries, allocated>>
    /\ UNCHANGED <<worldVars, dispVars, ret, obsVars, setVars, curlVars>>

Insecure ==
    /\ insecure' = TRUE
    /\ UNCHANGED <<headers, queryParams, output, middleware, hooks, streamHandler,
                   formFilePath, formData, formFile, transport, retries, allocated>>
    /\ UNCHANGED <<worldVars, dispVars, ret, obsVars, setVars, curlVars>>

SetFormFilePath(key, filePath) ==
    /\ allocated' = allocated \cup {"formFilePath"}
    /\ formFilePath' = MapPut(formFilePath, key, filePath)
    /\ UNCHANGED <<headers, queryParams, output, middleware, hooks, streamHandler,
                   formData, formFile, insecure, transport, retries>>
    /\ UNCHANGED <<worldVars, dispVars, ret, obsVars, setVars, curlVars>>

SetFormFile(fieldName, file) ==
    /\ allocated' = allocated \cup {"formFile"}
    /\ formFile' = MapPut(formFile, fieldName, file)
    /\ UNCHANGED <<headers, queryParams, output, middleware, hooks, streamHandler,
                   formFilePath, formData, insecure, transport, retries>>
    /\ UNCHANGED <<worldVars, dispVars, ret, obsVars, setVars, curlVars>>

SetFormData(params) ==
    /\ allocated' = allocated \cup {"formData"}
    /\ formData' = [k \in DOMAIN formData \cup DOMAIN params |->
                        IF k \in DOMAIN params THEN params[k] ELSE formData[k]]
    /\ UNCHANGED <<headers, queryParams, output, middleware, hooks, streamHandler,
                   formFilePath, formFile, insecure, transport, retries>>
    /\ UNCHANGED <<worldVars, dispVars, ret, obsVars, setVars, curlVars>>

SetOutput(out) ==
    /\ output' = out
    /\ UNCHANGED <<headers, queryParams, middleware, hooks, streamHandler,
                   formFilePath, formData, formFile, insecure, transport, retries, allocated>>
    /\ UNCHANGED <<worldVars, dispVars, ret, obsVars, setVars, curlVars>>

Stream(consumer) ==
    /\ streamHandler' = consumer
    /\ UNCHANGED <<headers, queryParams, output, middleware, hooks,
                   formFilePath, formData, formFile, insecure, transport, retries, allocated>>
    /\ UNCHANGED <<worldVars, dispVars, ret, obsVars, setVars, curlVars>>


-----------------------------------------------------------------------------
(* Query strings, as net/url writes and reads them *)

\* The printable ASCII characters in byte order, from the space (32) on; the
\* grave accent (96), which a TLA+ string cannot hold, is left as a space
Ascii ==
    " !\"#$%&'()*+,-./0123456789:;<=>?@ABCDEFGHIJKLMNOPQRSTUVWXYZ[\\]^_ abcdefghijklmnopqrstuvwxyz{|}~"

Code(c) == IndexOf(Ascii, c) + 31
HexDigits == "0123456789ABCDEF"

\* A byte url.QueryEscape leaves as it is: a letter, a digit, or one of -_.~
Unreserved(c) ==
    IsLower(c) \/ IsUpper(c) \/ IndexOf(Digits, c) > 0 \/ IndexOf("-_.~", c) > 0

\* url.QueryEscape: a space becomes +, any other byte that is not unreserved
\* becomes % and its two hexadecimal digits
RECURSIVE queryEscape(_)
queryEscape(s) ==
    IF s = "" THEN ""
    ELSE LET c == Char(s, 1)
             e == IF Unreserved(c) THEN c
                  ELSE IF c = " " THEN "+"
                  ELSE "%" \o Char(HexDigits, (Code(c) \div 16) + 1)
                           \o Char(HexDigits, (Code(c) % 16) + 1)
         IN  e \o queryEscape(SubSeq(s, 2, Len(s)))

\* The keys and values the model's query parameters take, each with its
\* escaped form, computed once
QueryKeys    == {"key", "Key", "a b"}
QueryStrings == {"value", "x&y"}
QueryValues  ==
    {[kind |-> "string", s |-> "value"], [kind |-> "bool", b |-> TRUE]}
        \cup {[kind |-> "int", n |-> n] : n \in {0, 10, -7}}
QueryWords ==
    QueryKeys \cup QueryStrings \cup {Sprintv(v) : v \in QueryValues}
        \cup {"param1", "param2", "value1", "value2"}
Escaped == [w \in QueryWords |-> queryEscape(w)]

QueryEscape(s) == IF s \in DOMAIN Escaped THEN Escaped[s] ELSE queryEscape(s)

\* a < b in byte order, the order sort.Strings gives the keys
RECURSIVE StringLess(_, _)
StringLess(a, b) ==
    IF b = "" THEN FALSE
    ELSE IF a = "" THEN TRUE
    ELSE IF Char(a, 1) = Char(b, 1)
         THEN StringLess(SubSeq(a, 2, Len(a)), SubSeq(b, 2, Len(b)))
         ELSE Code(Char(a, 1)) < Code(Char(b, 1))

\* The order of the keys the model meets, computed once
Before ==
    [a \in QueryWords \cup DOMAIN CanonicalKeys, b \in QueryWords \cup DOMAIN CanonicalKeys
        |-> StringLess(a, b)]

Less(a, b) ==
    IF <<a, b>> \in DOMAIN Before THEN Before[a, b] ELSE StringLess(a, b)

RECURSIVE SortedKeys(_)
\* sort.Strings over the key set S
SortedKeys(S) ==
    IF S = {} THEN <<>>
    ELSE LET m == CHOOSE x \in S : \A y \in S \ {x} : Less(x, y)
         IN  <<m>> \o SortedKeys(S \ {m})

RECURSIVE EncodeValues(_, _)
\* the k=v pairs of one key, each preceded by &
EncodeValues(k, vs) ==
    IF vs = <<>> THEN ""
    ELSE "&" \o QueryEscape(k) \o "=" \o QueryEscape(vs[1]) \o EncodeValues(k, Tail(vs))

RECURSIVE EncodeKeys(_, _)
EncodeKeys(v, keys) ==
    IF keys = <<>> THEN ""
    ELSE EncodeValues(keys[1], v[keys[1]]) \o EncodeKeys(v, Tail(keys))

\* url.Values.Encode: the keys sorted, k=v pairs joined by &
ValuesEncode(v) ==
    LET all == EncodeKeys(v, SortedKeys(DOMAIN v))
    IN  IF all = "" THEN "" ELSE SubSeq(all, 2, Len(all))

\* url.QueryUnescape, as the server applies it to what it received
RECURSIVE QueryUnescape(_)
QueryUnescape(s) ==
    IF s = "" THEN ""
    ELSE LET c == Char(s, 1)
         IN  IF c = "%" /\ Len(s) >= 3
             THEN Char(Ascii, (IndexOf(HexDigits, Char(s, 2)) - 1) * 16
                               + (IndexOf(HexDigits, Char(s, 3)) - 1) - 31)
                      \o QueryUnescape(SubSeq(s, 4, Len(s)))
             ELSE (IF c = "+" THEN " " ELSE c) \o QueryUnescape(SubSeq(s, 2, Len(s)))

\* strings.Split(s, sep) for a separator of one byte
RECURSIVE Split(_, _)
Split(s, sep) ==
    LET i == IndexOf(s, sep)
    IN  IF i = 0 THEN <<s>>
        ELSE <<SubSeq(s, 1, i - 1)>> \o Split(SubSeq(s, i + 1, Len(s)), sep)

RECURSIVE ParsePairs(_, _)
ParsePairs(pairs, acc) ==
    IF pairs = <<>> THEN acc
    ELSE LET kv == pairs[1]
             i  == IndexOf(kv, "=")
             k  == QueryUnescape(IF i = 0 THEN kv ELSE SubSeq(kv, 1, i - 1))
             v  == QueryUnescape(IF i = 0 THEN "" ELSE SubSeq(kv, i + 1, Len(kv)))
         IN  ParsePairs(Tail(pairs),
                        IF kv = "" THEN acc
                        ELSE MapPut(acc, k, (IF k \in DOMAIN acc THEN acc[k] ELSE <<>>) \o <<v>>))

\* r.URL.Query() on the server: the query string parsed back into url.Values
ParseQuery(raw) == ParsePairs(Split(raw, "&"), [k \in {} |-> <<>>])

\* url.Parse rejects a % that two hexadecimal digits do not follow
ValidEscapes(s) ==
    \A i \in 1..Len(s) :
        Char(s, i) = "%" =>
            /\ i + 2 <= Len(s)
            /\ IndexOf(HexDigits, ToUpper(Char(s, i + 1))) > 0
            /\ IndexOf(HexDigits, ToUpper(Char(s, i + 2))) > 0


-----------------------------------------------------------------------------
(* The world a dispatch runs in: the files on disk, the caller's open files,
   the body arguments, the server *)

\* What is at each path a caller may name: a regular file, a directory (which
\* os.Open opens and io.Copy cannot read), or nothing
FileSystem ==
    [p \in FormPaths |->
        CASE p = "/tmp/a.txt" -> [kind |-> "file", content |-> "file1 content"]
          [] p = "/tmp"       -> [kind |-> "dir",  content |-> ""]
          [] OTHER            -> [kind |-> "none", content |-> ""]]

\* The caller's open files: Name() and what an *os.File holds
FileName(h)      == IF h \in OsFiles THEN "/tmp/up.txt" ELSE "valid.txt"
OsFileName(h)    == FileName(h)
OsFileContent(h) == "file2 content"

\* filepath.Base for a path that does not end in a slash
RECURSIVE Base(_)
Base(path) ==
    LET i == IndexOf(path, "/")
    IN  IF i = 0 THEN path ELSE Base(SubSeq(path, i + 1, Len(path)))

\* The body arguments of Post, Put and Patch: nil, a map[string]string of one
\* entry, a channel (which encoding/json cannot serialize)
BodyArgs ==
    {None, Some([kind |-> "map", k |-> "key", v |-> "value"]), Some([kind |-> "chan"])}

\* json.Marshal
JsonMarshal(v) ==
    IF v.kind = "map"
    THEN [err |-> None, bytes |-> "{\"" \o v.k \o "\":\"" \o v.v \o "\"}"]
    ELSE [err |-> Some("json: unsupported type"), bytes |-> ""]

\* Whether json.Unmarshal into the caller's struct accepts the bytes: a JSON
\* object, from its opening to its closing brace
JsonObject(b) == Len(b) >= 2 /\ Char(b, 1) = "{" /\ Char(b, Len(b)) = "}"

baseURL   == "http://example.com"
Endpoints == {"/test", "/bad%zz"}

\* What the transport may answer: an error, or a response
ServerStatuses == {200, 404}
ServerBodies   == {"{\"message\": \"success\"}", "not json"}
TransportOutcomes ==
    {[ok |-> FALSE, StatusCode |-> 0, Body |-> ""]}
        \cup {[ok |-> TRUE, StatusCode |-> c, Body |-> b] :
                c \in ServerStatuses, b \in ServerBodies}

StatusInternalServerError == 500

-----------------------------------------------------------------------------
(* Body preparation, main.go:174-240 *)

Boundary == "7d1a"
\* multipart.Writer.FormDataContentType
FormDataContentType == "multipart/form-data; boundary=" \o Boundary

RECURSIVE CopyFilePathsSkipping(_, _, _, _)
\* A first loop that goes on to the next entry when a file cannot be opened
CopyFilePathsSkipping(paths, ord, parts, opened) ==
    IF ord = <<>> THEN [err |-> None, parts |-> parts, opened |-> opened]
    ELSE LET key == ord[1]
             f   == FileSystem[paths[key]]
         IN  IF f.kind = "none"
             THEN CopyFilePathsSkipping(paths, Tail(ord), parts, opened)
             ELSE IF f.kind = "dir"
             THEN [err |-> Some("read: is a directory"),
                   parts |-> parts, opened |-> Append(opened, paths[key])]
             ELSE CopyFilePathsSkipping(paths, Tail(ord),
                      Append(parts, [name |-> key, filename |-> Base(paths[key]),
                                     file |-> TRUE, content |-> f.content]),
                      Append(opened, paths[key]))

RECURSIVE CopyFilePaths(_, _, _, _)
\* The first loop of writeFormData, over c.formFilePath in the order ord:
\* os.Open, defer file.Close(), CreateFormFile, io.Copy
CopyFilePaths(paths, ord, parts, opened) ==
    IF ord = <<>> THEN [err |-> None, parts |-> parts, opened |-> opened]
    ELSE LET key == ord[1]
             f   == FileSystem[paths[key]]
         IN  IF f.kind = "none"
             THEN [err |-> Some("open: no such file or directory"),
                   parts |-> parts, opened |-> opened]
             ELSE IF f.kind = "dir"
             THEN [err |-> Some("read: is a directory"),
                   parts |-> parts, opened |-> Append(opened, paths[key])]
             ELSE CopyFilePaths(paths, Tail(ord),
                      Append(parts, [name |-> key, filename |-> Base(paths[key]),
                                     file |-> TRUE, content |-> f.content]),
                      Append(opened, paths[key]))

RECURSIVE WriteFields(_, _, _)
\* The second loop: writer.WriteField for every entry of c.formData
WriteFields(data, ord, parts) ==
    IF ord = <<>> THEN parts
    ELSE WriteFields(data, Tail(ord),
             Append(parts, [name |-> ord[1], filename |-> "",
                            file |-> FALSE, content |-> data[ord[1]]]))

RECURSIVE CopyOpenFiles(_, _, _, _, _)
\* The third loop, over c.formFile: the file must be an *os.File, its Close is
\* deferred, and io.Copy reads it from where it stands to its end
CopyOpenFiles(files, ord, parts, hs, deferred) ==
    IF ord = <<>> THEN [err |-> None, parts |-> parts, hs |-> hs, deferred |-> deferred]
    ELSE LET field == ord[1]
             h     == files[field]
         IN  IF h \notin OsFiles
             THEN [err |-> Some("file is not an *os.File"),
                   parts |-> parts, hs |-> hs, deferred |-> deferred]
             ELSE IF hs[h].closed
             THEN [err |-> Some("read: file already closed"),
                   parts |-> parts, hs |-> hs, deferred |-> deferred \cup {h}]
             ELSE CopyOpenFiles(files, Tail(ord),
                      Append(parts,
                          [name |-> field, filename |-> OsFileName(h), file |-> TRUE,
                           content |-> SubSeq(OsFileContent(h), hs[h].pos + 1,
                                              Len(OsFileContent(h)))]),
                      [hs EXCEPT ![h].pos = Len(OsFileContent(h))],
                      deferred \cup {h})

\* A Close that runs only when writeFormData returns nil
CloseOnSuccess(opened, err) ==
    [i \in DOMAIN opened |-> [path |-> opened[i], closed |-> err = None]]

\* defer file.Close(), main.go:206: every file the first loop opened is closed
\* when writeFormData returns, whatever it returns
CloseDeferred(opened, err) ==
    [i \in DOMAIN opened |-> [path |-> opened[i], closed |-> TRUE]]

\* writeFormData with the orders its three range loops take. The deferred
\* Close calls run when it returns, on every path: the files it opened itself
\* (fds) and the caller's open files it reached.
writeFormData(ordP, ordD, ordF) ==
    LET one   == CopyFilePaths(formFilePath, ordP, <<>>, <<>>)
        two   == WriteFields(formData, ordD, one.parts)
        three == CopyOpenFiles(formFile, ordF, two, handles, {})
        close(hs, D) == [h \in DOMAIN hs |->
                            IF h \in D THEN [hs[h] EXCEPT !.closed = TRUE] ELSE hs[h]]
    IN  IF one.err # None
        THEN [err |-> one.err, parts |-> <<>>, handles |-> handles,
              fds |-> CloseDeferred(one.opened, one.err)]
        ELSE [err |-> three.err,
              parts |-> IF three.err = None THEN three.parts ELSE <<>>,
              handles |-> close(three.hs, three.deferred),
              fds |-> CloseDeferred(one.opened, three.err)]

HasFormInputs ==
    Cardinality(DOMAIN formFilePath) > 0 \/ Cardinality(DOMAIN formData) > 0
        \/ Cardinality(DOMAIN formFile) > 0

\* A preparation that serializes a body argument whenever there is one, and
\* encodes the form inputs only when there is none
prepareBodyFirst(body, ordP, ordD, ordF) ==
    IF body # None
    THEN LET j == JsonMarshal(body[1])
         IN  [reqBody  |-> IF j.err = None
                           THEN Some([kind |-> "json", boundary |-> "",
                                      parts |-> <<>>, bytes |-> j.bytes])
                           ELSE None,
              jsonBody |-> j.bytes,
              writer   |-> IF HasFormInputs THEN Some(FormDataContentType) ELSE None,
              err      |-> j.err,
              failure  |-> IF j.err = None THEN "" ELSE "serialize",
              handles  |-> handles,
              fds      |-> <<>>]
    ELSE IF HasFormInputs
    THEN LET w == writeFormData(ordP, ordD, ordF)
         IN  [reqBody  |-> IF w.err = None
                           THEN Some([kind |-> "multipart", boundary |-> Boundary,
                                      parts |-> w.parts, bytes |-> ""])
                           ELSE None,
              jsonBody |-> "",
              writer   |-> IF w.err = None THEN Some(FormDataContentType) ELSE None,
              err      |-> w.err,
              failure  |-> IF w.err = None THEN "" ELSE "form",
              handles  |-> w.handles,
              fds      |-> w.fds]
    ELSE [reqBody |-> None, jsonBody |-> "", writer |-> None, err |-> None,
          failure |-> "", handles |-> handles, fds |-> <<>>]

\* prepareRequestBody: reqBody, jsonBody, writer, err (and what became of the
\* caller's open files)
prepareRequestBody(body, ordP, ordD, ordF) ==
    IF HasFormInputs
    THEN LET w == writeFormData(ordP, ordD, ordF)
         IN  [reqBody  |-> IF w.err = None
                           THEN Some([kind |-> "multipart", boundary |-> Boundary,
                                      parts |-> w.parts, bytes |-> ""])
                           ELSE None,
              jsonBody |-> "",
              writer   |-> IF w.err = None THEN Some(FormDataContentType) ELSE None,
              err      |-> w.err,
              failure  |-> IF w.err = None THEN "" ELSE "form",
              handles  |-> w.handles,
              fds      |-> w.fds]
    ELSE IF body # None
    THEN LET j == JsonMarshal(body[1])
         IN  [reqBody  |-> IF j.err = None
                           THEN Some([kind |-> "json", boundary |-> "",
                                      parts |-> <<>>, bytes |-> j.bytes])
                           ELSE None,
              jsonBody |-> j.bytes,
              writer   |-> None,
              err      |-> j.err,
              failure  |-> IF j.err = None THEN "" ELSE "serialize",
              handles  |-> handles,
              fds      |-> <<>>]
    ELSE [reqBody |-> None, jsonBody |-> "", writer |-> None, err |-> None,
          failure |-> "", handles |-> handles, fds |-> <<>>]


-----------------------------------------------------------------------------
(* Request construction and headers, main.go:149-154, 242-257, 345-351 *)

\* http.NewRequest(method, url, body): the URL is parsed (what follows the
\* first ? is the raw query), the header map starts empty
NewRequest(method, url, reqBody) ==
    LET q == IndexOf(url, "?")
    IN  IF ~ValidEscapes(url)
        THEN [err |-> Some("parse: invalid URL escape"), req |-> None]
        ELSE [err |-> None,
              req |-> Some([Method   |-> method,
                            Path     |-> IF q = 0 THEN url ELSE SubSeq(url, 1, q - 1),
                            RawQuery |-> IF q = 0 THEN ""
                                         ELSE SubSeq(url, q + 1, Len(url)),
                            Header   |-> [k \in {} |-> <<>>],
                            Body     |-> reqBody])]

\* url.URL.String
URLString(req) ==
    req.Path \o (IF req.RawQuery # "" THEN "?" \o req.RawQuery ELSE "")

RECURSIVE AddValues(_, _, _)
AddValues(h, key, values) ==
    IF values = <<>> THEN h
    ELSE AddValues(HeaderAdd(h, key, values[1]), key, Tail(values))

RECURSIVE AddKeys(_, _, _)
AddKeys(h, src, ord) ==
    IF ord = <<>> THEN h
    ELSE AddKeys(AddValues(h, ord[1], src[ord[1]]), src, Tail(ord))

\* addHeaders: every value of every client header is added to the request's
addHeaders(req) ==
    [req EXCEPT !.Header = AddKeys(req.Header, headers, SortedKeys(DOMAIN headers))]

\* A setRequestHeaders that attaches the query parameters for GET alone
setRequestHeadersGetOnly(req, method, writer) ==
    LET one == IF method = "GET"
               THEN [req EXCEPT !.RawQuery = ValuesEncode(queryParams)]
               ELSE IF /\ method \in {"POST", "PUT", "PATCH"}
                       /\ HeaderGet(headers, "Content-Type") = ""
                       /\ Cardinality(DOMAIN formFilePath) = 0
               THEN [req EXCEPT !.Header = HeaderSet(req.Header, "Content-Type",
                                                     "application/json")]
               ELSE req
        two == IF HasFormInputs
               THEN [one EXCEPT !.Header = HeaderSet(one.Header, "Content-Type", writer[1])]
               ELSE one
    IN  addHeaders(two)

\* setRequestHeaders
setRequestHeaders(req, method, writer) ==
    LET one == IF method \in {"GET", "DELETE"}
               THEN [req EXCEPT !.RawQuery = ValuesEncode(queryParams)]
               ELSE IF /\ method \in {"POST", "PUT", "PATCH"}
                       /\ HeaderGet(headers, "Content-Type") = ""
                       /\ Cardinality(DOMAIN formFilePath) = 0
               THEN [req EXCEPT !.Header = HeaderSet(req.Header, "Content-Type",
                                                     "application/json")]
               ELSE req
        two == IF HasFormInputs
               THEN [one EXCEPT !.Header = HeaderSet(one.Header, "Content-Type", writer[1])]
               ELSE one
    IN  addHeaders(two)

-----------------------------------------------------------------------------
(* The interceptor chain and the recorder, main.go:156-164 *)

RECURSIVE ComposeFrom(_, _, _)
\* for i := len(c.middleware) - 1; i >= 0; i-- { handler = c.middleware[i](req, handler) }
\* A handler is the sequence of the interceptors wrapped around the innermost
\* handler, the outermost first.
ComposeFrom(mw, i, handler) ==
    IF i < 1 THEN handler
    ELSE ComposeFrom(mw, i - 1, <<[idx |-> i, kind |-> mw[i]]>> \o handler)

RECURSIVE ComposeUpFrom(_, _, _)
\* The loop run from the first interceptor to the last
ComposeUpFrom(mw, i, handler) ==
    IF i > Len(mw) THEN handler
    ELSE ComposeUpFrom(mw, i + 1, <<[idx |-> i, kind |-> mw[i]]>> \o handler)

ComposeUpwards(mw) == ComposeUpFrom(mw, 1, <<>>)

Compose(mw) == ComposeFrom(mw, Len(mw), <<>>)

\* httptest.NewRecorder
NewRecorder == [Code |-> 200, wroteHeader |-> FALSE, Body |-> ""]

\* ResponseRecorder.WriteHeader: the first call sets the code
RecWriteHeader(rec, code) ==
    IF rec.wroteHeader THEN rec ELSE [rec EXCEPT !.Code = code, !.wroteHeader = TRUE]

\* ResponseRecorder.Write
RecWrite(rec, bytes) ==
    [RecWriteHeader(rec, 200) EXCEPT !.Body = @ \o bytes]

\* http.Error(w, msg, code)
HttpError(rec, msg, code) == RecWrite(RecWriteHeader(rec, code), msg \o "\n")

\* The zero Request
ZeroRequest ==
    [Method |-> "", URL |-> "", Headers |-> [k \in {} |-> <<>>], Body |-> "",
     QueryParams |-> [k \in {} |-> <<>>], FormFilePath |-> EmptyMap,
     FormData |-> EmptyMap, FormFile |-> EmptyMap, insecure |-> FALSE,
     alias |-> {}]

Event(ev, n) == [ev |-> ev, n |-> n]

-----------------------------------------------------------------------------
(* A dispatch, main.go:143-172 and 259-318 *)

\* The client's fields a dispatch goes by, as they are when doRequest is entered
Configuration ==
    [hooks |-> hooks, streamHandler |-> streamHandler, output |-> output,
     formFilePath |-> formFilePath, formData |-> formData, formFile |-> formFile,
     insecure |-> insecure]

\* doRequest up to handler.ServeHTTP: the body, the request, its headers, the
\* handler and the chain around it, the recorder
doRequest(method, endpoint, body) ==
    /\ pc = "idle"
    /\ \E ordP \in Orders(DOMAIN formFilePath), ordD \in Orders(DOMAIN formData),
          ordF \in Orders(DOMAIN formFile) :
        LET prep == prepareRequestBody(body, ordP, ordD, ordF)
            made == NewRequest(method, baseURL \o endpoint, prep.reqBody)
        IN  /\ handles' = prep.handles
            /\ fds' = prep.fds
            /\ IF prep.err # None
               THEN /\ ret' = Some([resp |-> None, err |-> prep.err])
                    /\ failure' = prep.failure
                    /\ call' = None /\ chain' = <<>> /\ pc' = "idle"
               ELSE IF made.err # None
               THEN /\ ret' = Some([resp |-> None, err |-> made.err])
                    /\ failure' = "construct"
                    /\ call' = None /\ chain' = <<>> /\ pc' = "idle"
               ELSE /\ ret' = None
                    /\ failure' = ""
                    /\ call' = Some([method   |-> method,
                                     body     |-> body,
                                     cfg      |-> Configuration,
                                     jsonBody |-> prep.jsonBody,
                                     req      |-> setRequestHeaders(made.req[1], method,
                                                                    prep.writer)])
                    /\ chain' = Compose(middleware)
                    /\ pc' = "serve"
    /\ depth' = 0
    /\ resp' = None
    /\ hookQueue' = <<>>
    /\ recorder' = NewRecorder
    /\ request' = ZeroRequest
    /\ trace' = <<>>
    /\ rawResp' = None
    /\ UNCHANGED <<cfgVars, target, process, setVars, curlVars>>

Get(endpoint)         == doRequest("GET", endpoint, None)
Delete(endpoint)      == doRequest("DELETE", endpoint, None)
Post(endpoint, body)  == doRequest("POST", endpoint, body)
Put(endpoint, body)   == doRequest("PUT", endpoint, body)
Patch(endpoint, body) == doRequest("PATCH", endpoint, body)

\* A chain in which next is called whatever the interceptor's handler does
EnterIgnoringShort ==
    /\ pc = "serve"
    /\ depth < Len(chain)
    /\ LET i == chain[depth + 1]
       IN  /\ trace' = Append(trace, Event(IF i.kind = "pass" THEN "before" ELSE "short",
                                           i.idx))
           /\ depth' = depth + 1
           /\ pc' = "serve"
    /\ UNCHANGED <<cfgVars, worldVars, call, chain, resp, hookQueue, recorder, request,
                   ret, failure, rawResp, setVars, curlVars>>

\* An interceptor's handler is entered: it runs its own logic and calls next,
\* or returns without calling it
Enter ==
    /\ pc = "serve"
    /\ depth < Len(chain)
    /\ LET i == chain[depth + 1]
       IN  IF i.kind = "pass"
           THEN /\ trace' = Append(trace, Event("before", i.idx))
                /\ depth' = depth + 1
                /\ pc' = "serve"
           ELSE /\ trace' = Append(trace, Event("short", i.idx))
                /\ depth' = depth
                /\ pc' = "unwind"
    /\ UNCHANGED <<cfgVars, worldVars, call, chain, resp, hookQueue, recorder, request,
                   ret, failure, rawResp, setVars, curlVars>>

\* The hooks with their places in c.hooks, as the range loop meets them
Indexed(hs) == [i \in DOMAIN hs |-> [idx |-> i, kind |-> hs[i]]]

\* An innermost handler that calls the transport again after a failure, as
\* long as the client has a retry count
TransportRetrying(outcome) ==
    /\ pc = "serve"
    /\ depth = Len(chain)
    /\ transport' = IF insecure THEN "insecure" ELSE transport
    /\ trace' = Append(trace, Event("network", 0))
    /\ IF outcome.ok
       THEN /\ resp' = Some([StatusCode |-> outcome.StatusCode, Body |-> outcome.Body])
            /\ rawResp' = resp'
            /\ hookQueue' = Indexed(hooks)
            /\ pc' = "hooks"
            /\ UNCHANGED <<recorder, failure>>
       ELSE IF retries > 0 /\ Len(trace) < retries
       THEN UNCHANGED <<pc, recorder, failure, resp, rawResp, hookQueue>>
       ELSE /\ recorder' = HttpError(recorder, "transport error", StatusInternalServerError)
            /\ failure' = "transport"
            /\ pc' = "unwind"
            /\ UNCHANGED <<resp, rawResp, hookQueue>>
    /\ UNCHANGED <<clientVars, worldVars, call, chain, depth, request, ret, setVars,
                   curlVars>>

\* The innermost handler, main.go:261-273: the transport is made insecure if
\* the client is, and the request goes out
Transport(outcome) ==
    /\ pc = "serve"
    /\ depth = Len(chain)
    /\ transport' = IF insecure THEN "insecure" ELSE transport
    /\ trace' = Append(trace, Event("network", 0))
    /\ IF outcome.ok
       THEN /\ resp' = Some([StatusCode |-> outcome.StatusCode, Body |-> outcome.Body])
            /\ rawResp' = resp'
            /\ hookQueue' = Indexed(hooks)
            /\ pc' = "hooks"
            /\ UNCHANGED <<recorder, failure>>
       ELSE /\ recorder' = HttpError(recorder, "transport error", StatusInternalServerError)
            /\ failure' = "transport"
            /\ pc' = "unwind"
            /\ UNCHANGED <<resp, rawResp, hookQueue>>
    /\ UNCHANGED <<clientVars, worldVars, call, chain, depth, request, ret, setVars,
                   curlVars>>

\* What a hook does to the *http.Response it is handed
ApplyHook(kind, r) ==
    CASE kind = "observe"   -> r
      [] kind = "setStatus" -> [r EXCEPT !.StatusCode = 418]
      [] kind = "drain"     -> [r EXCEPT !.Body = ""]

\* The hook at place i of c.hooks was called and saw the status code n
HookEvent(i, n) == [ev |-> "hook", n |-> n, i |-> i]

\* A loop that calls the hooks from the last registered to the first
RunHookLast ==
    /\ pc = "hooks"
    /\ hookQueue # <<>>
    /\ trace' = Append(trace, HookEvent(hookQueue[Len(hookQueue)].idx, resp[1].StatusCode))
    /\ resp' = Some(ApplyHook(hookQueue[Len(hookQueue)].kind, resp[1]))
    /\ hookQueue' = SubSeq(hookQueue, 1, Len(hookQueue) - 1)
    /\ UNCHANGED <<cfgVars, worldVars, pc, call, chain, depth, recorder, request, ret,
                   failure, rawResp, setVars, curlVars>>

\* for _, hook := range c.hooks { hook(r, resp) }, one call
RunHook ==
    /\ pc = "hooks"
    /\ hookQueue # <<>>
    /\ trace' = Append(trace, HookEvent(Head(hookQueue).idx, resp[1].StatusCode))
    /\ resp' = Some(ApplyHook(Head(hookQueue).kind, resp[1]))
    /\ hookQueue' = Tail(hookQueue)
    /\ UNCHANGED <<cfgVars, worldVars, pc, call, chain, depth, recorder, request, ret,
                   failure, rawResp, setVars, curlVars>>

\* What the streaming consumer does with the response it is handed, and the
\* error it returns
Consume(kind, r) ==
    CASE kind = "read" -> [err |-> None, resp |-> [r EXCEPT !.Body = ""]]
      [] kind = "skip" -> [err |-> None, resp |-> r]
      [] kind = "fail" -> [err |-> Some("stream error"), resp |-> r]

\* main.go:279-285: the streaming consumer, if there is one
RunConsumer ==
    /\ pc = "hooks"
    /\ hookQueue = <<>>
    /\ IF streamHandler = None
       THEN /\ pc' = "decode"
            /\ UNCHANGED <<resp, recorder, failure, trace>>
       ELSE LET done == Consume(streamHandler[1], resp[1])
            IN  /\ trace' = Append(trace, Event("stream", resp[1].StatusCode))
                /\ resp' = Some(done.resp)
                /\ IF done.err # None
                   THEN /\ recorder' = HttpError(recorder, done.err[1],
                                                 StatusInternalServerError)
                        /\ failure' = "stream"
                        /\ pc' = "unwind"
                   ELSE /\ pc' = "decode"
                        /\ UNCHANGED <<recorder, failure>>
    /\ UNCHANGED <<cfgVars, worldVars, call, chain, depth, hookQueue, request, ret,
                   rawResp, setVars, curlVars>>

\* A descriptor that also lists the client's query parameters
DescriptorWithParams ==
    [Method       |-> call[1].method,
     URL          |-> URLString(call[1].req),
     Headers      |-> call[1].req.Header,
     Body         |-> call[1].jsonBody,
     QueryParams  |-> queryParams,
     FormFilePath |-> formFilePath,
     FormData     |-> formData,
     FormFile     |-> formFile,
     insecure     |-> insecure,
     alias        |-> allocated]

\* The descriptor the handler fills in, main.go:299-308. Assigning a map copies
\* the reference to it: alias names the fields that share a map with the client
Descriptor ==
    [Method       |-> call[1].method,
     URL          |-> URLString(call[1].req),
     Headers      |-> call[1].req.Header,
     Body         |-> call[1].jsonBody,
     QueryParams  |-> [k \in {} |-> <<>>],
     FormFilePath |-> formFilePath,
     FormData     |-> formData,
     FormFile     |-> formFile,
     insecure     |-> insecure,
     alias        |-> allocated]

\* The descriptor d as whoever holds it reads it now: a map field that was
\* assigned a non-nil map of the client is that map, with what it holds now
Attached(d) ==
    [d EXCEPT !.FormFilePath = IF "formFilePath" \in d.alias THEN formFilePath ELSE @,
              !.FormData     = IF "formData" \in d.alias THEN formData ELSE @,
              !.FormFile     = IF "formFile" \in d.alias THEN formFile ELSE @]

\* The last member of a response body whose value is a string where the
\* caller's target has an int field
Misfit == ", \"code\": \"x\"}"

HasSuffix(s, x) == Len(s) >= Len(x) /\ SubSeq(s, Len(s) - Len(x) + 1, Len(s)) = x

\* json.Unmarshal(respBody, output): the error, and what the target then holds.
\* Input that is not valid JSON is refused before anything is written. A
\* member whose value does not fit the target's type (Misfit, a string where
\* the target has an int) is skipped, the members that fit are written, and
\* the error is an UnmarshalTypeError.
Unmarshal(respBody, held) ==
    IF ~JsonObject(respBody)
    THEN [err |-> Some("json: cannot decode"), target |-> held]
    ELSE IF HasSuffix(respBody, Misfit)
    THEN [err    |-> Some("json: cannot unmarshal string into Go value of type int"),
          target |-> SubSeq(respBody, 1, Len(respBody) - Len(Misfit)) \o "}"]
    ELSE [err |-> None, target |-> respBody]

\* main.go:287-317: the rest of the body is read, decoded into the output
\* target if there is one, the descriptor is filled in and the response is
\* written to the recorder
ReadAndDecode ==
    /\ pc = "decode"
    /\ LET respBody == resp[1].Body
           decoded  == IF output # None THEN Unmarshal(respBody, target)
                       ELSE [err |-> None, target |-> target]
       IN  /\ resp' = Some([resp[1] EXCEPT !.Body = ""])
           /\ target' = decoded.target
           /\ trace' = Append(trace, Event("read", resp[1].StatusCode))
                           \o (IF output # None
                               THEN <<Event("decode", resp[1].StatusCode)>>
                               ELSE <<>>)
           /\ IF decoded.err # None
              THEN /\ recorder' = HttpError(recorder, decoded.err[1],
                                            StatusInternalServerError)
                   /\ failure' = "decode"
                   /\ UNCHANGED request
              ELSE /\ request' = Descriptor
                   /\ recorder' = RecWrite(RecWriteHeader(recorder, resp[1].StatusCode),
                                           respBody)
                   /\ UNCHANGED failure
    /\ pc' = "unwind"
    /\ UNCHANGED <<cfgVars, handles, fds, process, call, chain, depth, hookQueue, ret, rawResp,
                   setVars, curlVars>>

\* next has returned into an interceptor's handler, which runs the rest of
\* its own logic and returns
Leave ==
    /\ pc = "unwind"
    /\ depth > 0
    /\ trace' = Append(trace, Event("after", chain[depth].idx))
    /\ depth' = depth - 1
    /\ UNCHANGED <<cfgVars, worldVars, pc, call, chain, resp, hookQueue, recorder,
                   request, ret, failure, rawResp, setVars, curlVars>>

\* A return that empties the three form maps once the request is done
ReturnClearingForms ==
    /\ pc = "unwind"
    /\ depth = 0
    /\ ret' = Some([resp |-> Some([StatusCode |-> recorder.Code,
                                   Body       |-> recorder.Body,
                                   Output     |-> output,
                                   Request    |-> request]),
                    err  |-> None])
    /\ pc' = "idle"
    /\ formFilePath' = EmptyMap /\ formData' = EmptyMap /\ formFile' = EmptyMap
    /\ UNCHANGED <<headers, queryParams, output, middleware, hooks, streamHandler,
                   insecure, retries, allocated, transport>>
    /\ UNCHANGED <<worldVars, call, chain, depth, resp, hookQueue, recorder,
                   request, obsVars, setVars, curlVars>>

\* handler.ServeHTTP has returned: doRequest returns the Response, main.go:166-171
Return ==
    /\ pc = "unwind"
    /\ depth = 0
    /\ ret' = Some([resp |-> Some([StatusCode |-> recorder.Code,
                                   Body       |-> recorder.Body,
                                   Output     |-> output,
                                   Request    |-> request]),
                    err  |-> None])
    /\ pc' = "idle"
    /\ UNCHANGED <<cfgVars, worldVars, call, chain, depth, resp, hookQueue, recorder,
                   request, obsVars, setVars, curlVars>>


-----------------------------------------------------------------------------
(* Request.GenerateCurlCommand, main.go:377-446 *)

RECURSIVE HeaderValueFlags(_, _)
\* the inner loop of main.go:395-406, over the values of one key
HeaderValueFlags(key, values) ==
    IF values = <<>> THEN ""
    ELSE LET v     == values[1]
             value == IF key = "Content-Type" /\ Contains(v, "boundary")
                      THEN Split(v, ";")[1] ELSE v
         IN  " -H \"" \o key \o ": " \o value \o "\""
                 \o HeaderValueFlags(key, Tail(values))

RECURSIVE HeaderFlags(_, _)
HeaderFlags(h, ord) ==
    IF ord = <<>> THEN ""
    ELSE HeaderValueFlags(ord[1], h[ord[1]]) \o HeaderFlags(h, Tail(ord))

RECURSIVE PathFlags(_, _)
PathFlags(paths, ord) ==
    IF ord = <<>> THEN ""
    ELSE " -F \"" \o ord[1] \o "=@" \o paths[ord[1]] \o "\"" \o PathFlags(paths, Tail(ord))

RECURSIVE DataFlags(_, _)
DataFlags(data, ord) ==
    IF ord = <<>> THEN ""
    ELSE " -F \"" \o ord[1] \o "=" \o data[ord[1]] \o "\"" \o DataFlags(data, Tail(ord))

RECURSIVE FileFlags(_, _)
\* main.go:427-437; ok is FALSE once a file without a Name method is met
FileFlags(files, ord) ==
    IF ord = <<>> THEN [ok |-> TRUE, s |-> ""]
    ELSE IF files[ord[1]] \in UnnamedFiles THEN [ok |-> FALSE, s |-> ""]
    ELSE LET rest == FileFlags(files, Tail(ord))
         IN  [ok |-> rest.ok,
              s  |-> " -F \"" \o ord[1] \o "=@" \o FileName(files[ord[1]]) \o "\""
                        \o rest.s]

\* A rendering that writes the insecure flag after the method
RenderCurlFlagAfterMethod(r, ordH, ordP, ordD, ordF) ==
    LET head  == "curl" \o " -X " \o r.Method \o (IF r.insecure THEN " -k" ELSE "")
                    \o " \""
                    \o (IF Cardinality(DOMAIN r.QueryParams) > 0
                        THEN r.URL \o "?" \o ValuesEncode(r.QueryParams)
                        ELSE r.URL)
                    \o "\""
                    \o HeaderFlags(r.Headers, ordH)
        files == FileFlags(r.FormFile, ordF)
    IN  IF \/ r.Method \in {"POST", "PUT", "PATCH"} /\ Len(r.Body) > 0
           \/ Cardinality(DOMAIN r.FormFilePath) > 0
           \/ Cardinality(DOMAIN r.FormData) > 0
           \/ Cardinality(DOMAIN r.FormFile) > 0
        THEN IF Contains(HeaderGet(r.Headers, "Content-Type"), "multipart/form-data")
             THEN IF files.ok
                  THEN head \o PathFlags(r.FormFilePath, ordP)
                            \o DataFlags(r.FormData, ordD) \o files.s
                  ELSE ""
             ELSE head \o " --data-raw '" \o r.Body \o "'"
        ELSE head

\* The string GenerateCurlCommand returns for r when its range loops over
\* r.Headers, r.FormFilePath, r.FormData and r.FormFile take these orders
RenderCurl(r, ordH, ordP, ordD, ordF) ==
    LET head  == "curl" \o (IF r.insecure THEN " -k" ELSE "") \o " -X " \o r.Method
                    \o " \""
                    \o (IF Cardinality(DOMAIN r.QueryParams) > 0
                        THEN r.URL \o "?" \o ValuesEncode(r.QueryParams)
                        ELSE r.URL)
                    \o "\""
                    \o HeaderFlags(r.Headers, ordH)
        files == FileFlags(r.FormFile, ordF)
    IN  IF \/ r.Method \in {"POST", "PUT", "PATCH"} /\ Len(r.Body) > 0
           \/ Cardinality(DOMAIN r.FormFilePath) > 0
           \/ Cardinality(DOMAIN r.FormData) > 0
           \/ Cardinality(DOMAIN r.FormFile) > 0
        THEN IF Contains(HeaderGet(r.Headers, "Content-Type"), "multipart/form-data")
             THEN IF files.ok
                  THEN head \o PathFlags(r.FormFilePath, ordP)
                            \o DataFlags(r.FormData, ordD) \o files.s
                  ELSE ""
             ELSE head \o " --data-raw '" \o r.Body \o "'"
        ELSE head

MaxRenders == 2

\* The descriptors a caller may build by hand, as the tests do
\* (main_test.go:248-257, 267-280, 292-302; TestGenerateCurlCommandWithValidFormFile)
CurlHeaders ==
    {[k \in {} |-> <<>>],
     [k \in {"Content-Type"} |-> <<"application/json">>],
     [k \in {"Content-Type"} |-> <<"multipart/form-data">>],
     [k \in {"Content-Type"} |-> <<"multipart/form-data; boundary=7d1a">>],
     [k \in {"Content-Type", "Accept"} |-> <<"application/json">>]}
CurlQueries ==
    {[k \in {} |-> <<>>],
     [k \in {"param1", "param2"} |-> IF k = "param1" THEN <<"value1">> ELSE <<"value2">>],
     [k \in {"a b"} |-> <<"x&y">>]}
CurlPaths ==
    {EmptyMap,
     [k \in {"file1"} |-> "/path/to/file1.txt"],
     [k \in {"file1", "file2"} |->
         IF k = "file1" THEN "/path/to/file1.txt" ELSE "/path/to/file2.txt"]}
CurlData ==
    {EmptyMap, [k \in {"field1"} |-> "value1"], [k \in {"field1", "field2"} |-> "value1"]}
CurlFiles ==
    {EmptyMap} \cup {[k \in {"file1"} |-> f] : f \in NamedFiles \cup UnnamedFiles}
\* req, reqMultipart of TestGenerateCurlCommand and req of
\* TestGenerateCurlCommandWithInsecureFlag, main_test.go:248-257, 267-280, 292-302
TestRequest ==
    [Method |-> "POST", URL |-> "http://example.com/api",
     Headers |-> [k \in {"Content-Type"} |-> <<"application/json">>],
     Body |-> "{\"key\":\"value\"}",
     QueryParams |-> [k \in {"param1", "param2"} |->
                         IF k = "param1" THEN <<"value1">> ELSE <<"value2">>],
     FormFilePath |-> EmptyMap, FormData |-> EmptyMap, FormFile |-> EmptyMap,
     insecure |-> FALSE, alias |-> {}]
TestRequestMultipart ==
    [Method |-> "POST", URL |-> "http://example.com/upload",
     Headers |-> [k \in {"Content-Type"} |-> <<"multipart/form-data">>],
     Body |-> "", QueryParams |-> [k \in {} |-> <<>>],
     FormFilePath |-> [k \in {"file1", "file2"} |->
                          IF k = "file1" THEN "/path/to/file1.txt"
                          ELSE "/path/to/file2.txt"],
     FormData |-> [k \in {"field1"} |-> "value1"], FormFile |-> EmptyMap,
     insecure |-> FALSE, alias |-> {}]
TestRequestInsecure ==
    [TestRequest EXCEPT !.URL = "https://example.com/api", !.insecure = TRUE]

Descriptors ==
    [Method : {"GET", "POST"}, URL : {"http://example.com/api"}, Headers : CurlHeaders,
     Body : {"", "{\"key\":\"value\"}"}, QueryParams : CurlQueries,
     FormFilePath : CurlPaths, FormData : CurlData, FormFile : CurlFiles,
     insecure : BOOLEAN, alias : {{}}]
        \cup {TestRequest, TestRequestMultipart, TestRequestInsecure}

\* req := &Request{...}
NewDescriptor(r) ==
    /\ curlReq' = r
    /\ curlOut' = <<>>
    /\ UNCHANGED <<cfgVars, worldVars, dispVars, ret, obsVars, setVars>>

\* req.GenerateCurlCommand()
GenerateCurlCommand ==
    /\ Len(curlOut) < MaxRenders
    /\ \E ordH \in Orders(DOMAIN curlReq.Headers),
          ordP \in Orders(DOMAIN curlReq.FormFilePath),
          ordD \in Orders(DOMAIN curlReq.FormData),
          ordF \in Orders(DOMAIN curlReq.FormFile) :
        curlOut' = Append(curlOut, RenderCurl(curlReq, ordH, ordP, ordD, ordF))
    /\ UNCHANGED <<cfgVars, worldVars, dispVars, ret, obsVars, setVars, curlReq>>

-----------------------------------------------------------------------------
(* The client after New, main.go:56-67 *)

Init ==
    /\ headers = [k \in {} |-> <<>>]
    /\ queryParams = [k \in {} |-> <<>>]
    /\ output = None
    /\ middleware = <<>>
    /\ hooks = <<>>
    /\ streamHandler = None
    /\ formFilePath = EmptyMap
    /\ formData = EmptyMap
    /\ formFile = EmptyMap
    /\ insecure = FALSE
    /\ retries \in RetryCounts
    /\ allocated = {}
    /\ transport = "default"
    /\ handles = [h \in OsFiles |-> [closed |-> FALSE, pos |-> 0]]
    /\ target = "initial"
    /\ fds = <<>>
    /\ process = "running"
    /\ pc = "idle"
    /\ call = None
    /\ chain = <<>>
    /\ depth = 0
    /\ resp = None
    /\ hookQueue = <<>>
    /\ recorder = NewRecorder
    /\ request = ZeroRequest
    /\ ret = None
    /\ trace = <<>>
    /\ failure = ""
    /\ rawResp = None
    /\ lastHeader = EmptyMap
    /\ lastQuery = EmptyMap
    /\ curlReq = ZeroRequest
    /\ curlOut = <<>>

\* The steps of a dispatch in progress
Serve ==
    \/ Enter
    \/ \E outcome \in TransportOutcomes : Transport(outcome)
    \/ RunHook
    \/ RunConsumer
    \/ ReadAndDecode
    \/ Leave
    \/ Return

\* Any builder call, any dispatch, any rendering
AnyCall ==
    \/ \E k \in HeaderKeys, v \in HeaderValues : SetHeader(k, v)
    \/ \E p \in IfaceArgs : SetQueryParamFromInterface(p)
    \/ \E m \in SmallMaps(HeaderKeys, HeaderValues) : SetHeaders(m)
    \/ \E k \in QueryKeys, v \in QueryStrings : SetQueryParam(k, v)
    \/ \E m \in SmallMaps(QueryKeys, QueryValues) : SetQueryParams(m)
    \/ \E k \in InterceptorKinds : UseMiddleware(<<k>>)
    \/ \E k \in HookKinds : UseHook(<<k>>)
    \/ Insecure
    \/ \E k \in FormFields, p \in FormPaths : SetFormFilePath(k, p)
    \/ \E k \in FormFields, f \in OpenFiles : SetFormFile(k, f)
    \/ \E m \in SmallMaps(DataFields, DataValues) : SetFormData(m)
    \/ \E o \in {None, Some("target")} : SetOutput(o)
    \/ \E c \in {None} \cup {Some(k) : k \in ConsumerKinds} : Stream(c)
    \/ \E e \in Endpoints : Get(e) \/ Delete(e)
    \/ \E e \in Endpoints, b \in BodyArgs : Post(e, b) \/ Put(e, b) \/ Patch(e, b)
    \/ Serve
    \/ \E r \in Descriptors : NewDescriptor(r)
    \/ GenerateCurlCommand

\* The program: a call, as long as the process runs
Next == process = "running" /\ AnyCall

Spec == Init /\ [][Next]_vars

-----------------------------------------------------------------------------
(* The setters alone: SetHeader, SetHeaders, SetQueryParam, SetQueryParams *)

NextSetters ==
    \/ \E k \in HeaderKeys, v \in HeaderValues : SetHeader(k, v)
    \/ \E m \in SmallMaps(HeaderKeys, HeaderValues) : SetHeaders(m)
    \/ \E k \in {"key", "Key"}, v \in QueryStrings : SetQueryParam(k, v)
    \/ \E m \in SmallMaps({"key", "Key"}, QueryValues) : SetQueryParams(m)

SpecSetters == Init /\ [][NextSetters]_vars

RECURSIVE DecimalValue(_)
\* The number a string of digits denotes
DecimalValue(s) ==
    IF s = "" THEN 0
    ELSE 10 * DecimalValue(SubSeq(s, 1, Len(s) - 1))
             + (IndexOf(Digits, Char(s, Len(s))) - 1)

\* s is n in base 10: digits only, a minus sign exactly when n < 0, no leading
\* zero
IsDecimalOf(s, n) ==
    LET d == IF n < 0 THEN SubSeq(s, 2, Len(s)) ELSE s
    IN  /\ n < 0 => Char(s, 1) = "-"
        /\ Len(d) >= 1
        /\ \A i \in 1..Len(d) : IndexOf(Digits, Char(d, i)) > 0
        /\ Len(d) > 1 => Char(d, 1) # "0"
        /\ DecimalValue(d) = (IF n < 0 THEN -n ELSE n)

\* s is the string formatting of the value handed to a query setter
FormattingOf(s, value) ==
    CASE value.kind = "string" -> s = value.s
      [] value.kind = "int"    -> IsDecimalOf(s, value.n)
      [] value.kind = "bool"   -> s = (IF value.b THEN "true" ELSE "false")

\* C6: after any sequence of SetHeader, SetHeaders, SetQueryParam and
\* SetQueryParams calls, every key that was written holds exactly one value,
\* the one written last. A header is found under any casing of its key; a
\* query parameter holds the string formatting of what was written (an
\* integer in base 10); a key never written holds nothing.
C6_LastWriteWins ==
    /\ \A key \in HeaderKeys :
        LET k == LowerKeys[key]
            c == CanonicalMIMEHeaderKey(key)
        IN  IF k \in DOMAIN lastHeader
            THEN /\ c \in DOMAIN headers
                 /\ headers[c] = <<lastHeader[k].value>>
                 /\ HeaderGet(headers, key) = lastHeader[k].value
            ELSE c \notin DOMAIN headers /\ HeaderGet(headers, key) = ""
    /\ DOMAIN queryParams = DOMAIN lastQuery
    /\ \A key \in DOMAIN lastQuery :
        /\ Len(queryParams[key]) = 1
        /\ FormattingOf(queryParams[key][1], lastQuery[key])
        /\ FormattingOf(ValuesGet(queryParams, key), lastQuery[key])

\* C6's case: a header written again under another casing of its key and with
\* another value than the one it first had, and a negative and a two-digit
\* integer stored as query parameters
C6_Witness ==
    /\ "content-type" \in DOMAIN lastHeader
    /\ lastHeader["content-type"].recased
    /\ lastHeader["content-type"].value = "text/plain"
    /\ "X-Test" \in DOMAIN headers
    /\ "key" \in DOMAIN lastQuery /\ "Key" \in DOMAIN lastQuery
    /\ lastQuery["key"] = [kind |-> "int", n |-> -7]
    /\ lastQuery["Key"] = [kind |-> "int", n |-> 10]


-----------------------------------------------------------------------------
(* Scenarios: the client is configured, then used. Each takes some of the
   builder calls and of the dispatches of Next, so each of its behaviours is
   one of Spec's. *)

\* No dispatch has been made yet
Configuring == pc = "idle" /\ ret = None

\* A dispatch has returned to its caller
Returned == pc = "idle" /\ ret # None

\* Interceptors, hooks that only look, a consumer and an output target around
\* dispatches of every method
NextChain ==
    \/ Configuring /\ \E k \in InterceptorKinds : UseMiddleware(<<k>>)
    \/ Configuring /\ UseHook(<<"observe">>)
    \/ Configuring /\ \E c \in {Some(k) : k \in ConsumerKinds} : Stream(c)
    \/ Configuring /\ SetOutput(Some("target"))
    \/ \E e \in Endpoints : Get(e) \/ Delete(e)
    \/ \E e \in Endpoints, b \in BodyArgs : Post(e, b) \/ Put(e, b) \/ Patch(e, b)
    \/ Serve

SpecChain == Init /\ [][NextChain]_vars

\* The events of the interceptors' handlers and of the network call
ChainEvents ==
    SelectSeq(trace, LAMBDA e : e.ev \in {"before", "short", "network", "after"})

\* I1-before, ..., In-before, network call, In-after, ..., I1-after
Onion(n) ==
    [i \in 1..(2 * n + 1) |->
        IF i <= n THEN Event("before", i)
        ELSE IF i = n + 1 THEN Event("network", 0)
        ELSE Event("after", 2 * n + 2 - i)]

AllPass == \A i \in DOMAIN middleware : middleware[i] = "pass"

\* C1: with interceptors I1..In registered in this order, each calling its
\* next handler once, a dispatch that runs the chain executes I1-before, ...,
\* In-before, the network call, In-after, ..., I1-after, in this order: what
\* has happened so far is always a prefix of that sequence, and all of it has
\* happened when the dispatch returns.
C1_InterceptorOrder ==
    AllPass /\ (pc # "idle" \/ (Returned /\ ret[1].err = None)) =>
        LET n == Len(middleware)
        IN  /\ Len(ChainEvents) <= 2 * n + 1
            /\ ChainEvents = SubSeq(Onion(n), 1, Len(ChainEvents))
            /\ Returned => ChainEvents = Onion(n)

\* C1's case: two interceptors A then B, the dispatch returned: A-before,
\* B-before, network call, B-after, A-after
C1_Witness ==
    /\ Returned
    /\ middleware = <<"pass", "pass">>
    /\ ChainEvents = <<Event("before", 1), Event("before", 2), Event("network", 0),
                       Event("after", 2), Event("after", 1)>>


\* C2: a dispatch that met a failure (request construction, body
\* serialization, form encoding, transport, streaming consumer, output
\* decoding) returns a non-nil error.
C2_FailureIsError ==
    Returned /\ failure # "" => ret[1].err # None

\* The status codes the hooks of the dispatch saw on the raw response
HookSaw == {trace[i].n : i \in {j \in DOMAIN trace : trace[j].ev = "hook"}}

\* C3: the status code every hook saw on the raw response is the StatusCode
\* of the Response the dispatch returned.
C3_HooksSeeReturnedStatus ==
    Returned /\ ret[1].resp # None =>
        \A code \in HookSaw : code = ret[1].resp[1].StatusCode

-----------------------------------------------------------------------------
\* Hooks of every kind, a consumer and an output target around Get and Post
NextHooks ==
    \/ Configuring /\ \E k \in HookKinds : UseHook(<<k>>)
    \/ Configuring /\ \E c \in {Some(k) : k \in ConsumerKinds} : Stream(c)
    \/ Configuring /\ SetOutput(Some("target"))
    \/ Get("/test")
    \/ Post("/test", Some([kind |-> "map", k |-> "key", v |-> "value"]))
    \/ Transport([ok |-> FALSE, StatusCode |-> 0, Body |-> ""])
    \/ \E c \in ServerStatuses, b \in ServerBodies :
          Transport([ok |-> TRUE, StatusCode |-> c, Body |-> b])
    \/ RunHook
    \/ RunConsumer
    \/ ReadAndDecode
    \/ Return

SpecHooks == Init /\ [][NextHooks]_vars

\* What the handler writes for the transport's response r when no hook comes
\* between the transport and the consumer
WithoutHooks(r) ==
    LET streamed == IF streamHandler = None THEN [err |-> None, resp |-> r]
                    ELSE Consume(streamHandler[1], r)
        decoded  == IF output # None THEN Unmarshal(streamed.resp.Body, "")
                    ELSE [err |-> None, target |-> ""]
    IN  IF streamed.err # None
        THEN HttpError(NewRecorder, streamed.err[1], StatusInternalServerError)
        ELSE IF decoded.err # None
        THEN HttpError(NewRecorder, decoded.err[1], StatusInternalServerError)
        ELSE RecWrite(RecWriteHeader(NewRecorder, streamed.resp.StatusCode),
                      streamed.resp.Body)

\* C10: whatever the hooks do, the status code and the body of the returned
\* Response are those the same dispatch returns with the hooks removed.
C10_HooksChangeNothing ==
    Returned /\ ret[1].resp # None /\ rawResp # None =>
        /\ ret[1].resp[1].StatusCode = WithoutHooks(rawResp[1]).Code
        /\ ret[1].resp[1].Body = WithoutHooks(rawResp[1]).Body

-----------------------------------------------------------------------------
\* Form file paths, form fields and an open form file before Get and Post
NextForm ==
    \/ Configuring /\ \E k \in FormFields, p \in FormPaths : SetFormFilePath(k, p)
    \/ Configuring /\ \E m \in SmallMaps(DataFields, DataValues) : SetFormData(m)
    \/ Configuring /\ \E f \in OpenFiles : SetFormFile("file1", f)
    \/ Get("/test")
    \/ \E b \in BodyArgs : Post("/test", b)
    \/ Transport([ok |-> TRUE, StatusCode |-> 200, Body |-> "{\"message\": \"success\"}"])
    \/ RunConsumer
    \/ ReadAndDecode
    \/ Return

SpecForm == Init /\ [][NextForm]_vars

\* How many parts of the body are the part p
Copies(parts, p) == Cardinality({i \in DOMAIN parts : parts[i] = p})

\* The part a form file path must give, and the part a form field must give
PathPart(key) ==
    [name |-> key, filename |-> Base(formFilePath[key]), file |-> TRUE,
     content |-> FileSystem[formFilePath[key]].content]
FieldPart(key) ==
    [name |-> key, filename |-> "", file |-> FALSE, content |-> formData[key]]

\* A dispatch has built its request with the configuration as it stands
Dispatched == call # None /\ (pc # "idle" \/ Returned)

\* C4: with any form input set, the request body is multipart, with exactly
\* one part per form file path (named by its key, holding the file's whole
\* content) and one part per form field (holding its value), and the body
\* argument is not serialized: no JSON is sent, none is recorded.
C4_FormInputsMakeMultipart ==
    Dispatched /\ HasFormInputs =>
        LET sent == call[1].req.Body
        IN  /\ sent # None
            /\ sent[1].kind = "multipart"
            /\ sent[1].bytes = ""
            /\ \A k \in DOMAIN formFilePath : Copies(sent[1].parts, PathPart(k)) = 1
            /\ \A k \in DOMAIN formData : Copies(sent[1].parts, FieldPart(k)) = 1
            /\ Len(sent[1].parts) = Cardinality(DOMAIN formFilePath)
                                      + Cardinality(DOMAIN formData)
                                      + Cardinality(DOMAIN formFile)
            /\ call[1].jsonBody = ""
            /\ request.Body = ""

\* A Post with a body argument, a form file path and a form field has returned
C4_Witness ==
    /\ Returned /\ ret[1].err = None /\ call # None
    /\ call[1].method = "POST" /\ call[1].body # None
    /\ DOMAIN formFilePath # {} /\ DOMAIN formData # {}
    /\ request.Method = "POST"

-----------------------------------------------------------------------------
\* Headers, query parameters and a form field before dispatches of every
\* method
NextRequest ==
    \/ Configuring /\ \E k \in {"Content-Type", "X-Test"}, v \in HeaderValues :
                          SetHeader(k, v)
    \/ Configuring /\ \E k \in QueryKeys, v \in QueryStrings : SetQueryParam(k, v)
    \/ Configuring /\ SetFormData([k \in {"field1"} |-> "value1"])
    \/ Get("/test") \/ Delete("/test")
    \/ \E b \in BodyArgs : Post("/test", b) \/ Put("/test", b) \/ Patch("/test", b)
    \/ Transport([ok |-> TRUE, StatusCode |-> 200, Body |-> "{\"message\": \"success\"}"])
    \/ RunConsumer
    \/ ReadAndDecode
    \/ Return

SpecRequest == Init /\ [][NextRequest]_vars

\* The values of the request's Content-Type header
SentContentType ==
    IF "Content-Type" \in DOMAIN call[1].req.Header
    THEN call[1].req.Header["Content-Type"] ELSE <<>>

\* C5: a POST, PUT or PATCH with a serializable body argument and no form
\* input sends the JSON encoding of the argument, with Content-Type
\* application/json when the client has no Content-Type header, and with the
\* client's Content-Type value, and that value alone, when it has one.
C5_JsonBodyAndContentType ==
    /\ Dispatched
    /\ call[1].method \in {"POST", "PUT", "PATCH"}
    /\ call[1].body # None
    /\ ~HasFormInputs
    => /\ call[1].req.Body = Some([kind |-> "json", boundary |-> "", parts |-> <<>>,
                                   bytes |-> JsonMarshal(call[1].body[1]).bytes])
       /\ SentContentType = IF "Content-Type" \in DOMAIN headers
                            THEN headers["Content-Type"]
                            ELSE <<"application/json">>

\* C7: the query string of a GET or DELETE request holds key=value, both
\* URL-encoded, for every query parameter of the client, and the server that
\* parses the query string reads every parameter back with its value.
C7_QueryCarriesEveryParam ==
    Dispatched /\ call[1].method \in {"GET", "DELETE"} =>
        LET raw    == call[1].req.RawQuery
            parsed == ParseQuery(raw)
        IN  \A k \in DOMAIN queryParams :
                /\ Contains("&" \o raw \o "&",
                            "&" \o QueryEscape(k) \o "="
                                \o QueryEscape(queryParams[k][1]) \o "&")
                /\ k \in DOMAIN parsed
                /\ parsed[k] = queryParams[k]
                /\ (k = "key" /\ queryParams[k] = <<"value">>) => Contains(raw, "key=value")

\* A DELETE has gone out with the parameters key=value and "a b"="x&y"
C7_Witness ==
    /\ Returned /\ ret[1].err = None /\ call # None
    /\ call[1].method = "DELETE"
    /\ "key" \in DOMAIN queryParams /\ queryParams["key"] = <<"value">>
    /\ "a b" \in DOMAIN queryParams /\ queryParams["a b"] = <<"x&y">>
    /\ call[1].req.RawQuery = "a+b=x%26y&key=value"

-----------------------------------------------------------------------------
\* A descriptor built by hand and rendered, more than once
NextCurl ==
    \/ curlReq = ZeroRequest /\ \E r \in Descriptors : NewDescriptor(r)
    \/ curlReq # ZeroRequest /\ GenerateCurlCommand

SpecCurl == Init /\ [][NextCurl]_vars

\* Where sub occurs in s
Occurrences(s, sub) ==
    {i \in 1..(Len(s) - Len(sub) + 1) : SubSeq(s, i, i + Len(sub) - 1) = sub}

Max(S) == CHOOSE x \in S : \A y \in S : y <= x
Min(S) == CHOOSE x \in S : \A y \in S : x <= y

\* expectedCurlCommand of main_test.go:259 and of main_test.go:304
ExpectedCurlCommand ==
    "curl -X POST \"http://example.com/api?param1=value1&param2=value2\" -H \"Content-Type: application/json\" --data-raw '{\"key\":\"value\"}'"
ExpectedCurlCommandInsecure ==
    "curl -k -X POST \"https://example.com/api?param1=value1&param2=value2\" -H \"Content-Type: application/json\" --data-raw '{\"key\":\"value\"}'"
\* expectedCurlCommandMultipart of main_test.go:282
ExpectedCurlCommandMultipart ==
    "curl -X POST \"http://example.com/upload\" -H \"Content-Type: multipart/form-data\" -F \"file1=@/path/to/file1.txt\" -F \"file2=@/path/to/file2.txt\" -F \"field1=value1\""

\* The header value as the rendering shows it
Shown(key, v) ==
    IF key = "Content-Type" /\ Contains(v, "boundary") THEN Split(v, ";")[1] ELSE v

\* The command cmd for the descriptor r has its pieces in the fixed order
InFixedOrder(r, cmd) ==
    LET flag   == IF r.insecure THEN " -k" ELSE ""
        method == "curl" \o flag \o " -X " \o r.Method \o " \""
        close  == Min({i \in Occurrences(cmd, "\"") : i > Len(method)})
        url    == SubSeq(cmd, Len(method) + 1, close - 1)
        mark   == IndexOf(url, "?")
        rest   == SubSeq(cmd, close + 1, Len(cmd))
        hs     == Occurrences(rest, " -H \"")
        body   == Occurrences(rest, " -F \"") \cup Occurrences(rest, " --data-raw '")
    IN  /\ HasPrefix(cmd, method)
        /\ HasPrefix(cmd, "curl -k") <=> r.insecure
        /\ IF DOMAIN r.QueryParams = {}
           THEN url = r.URL
           ELSE /\ mark > 0
                /\ SubSeq(url, 1, mark - 1) = r.URL
                /\ ParseQuery(SubSeq(url, mark + 1, Len(url))) = r.QueryParams
        /\ \A k \in DOMAIN r.Headers : \A i \in DOMAIN r.Headers[k] :
               Contains(rest, " -H \"" \o k \o ": " \o Shown(k, r.Headers[k][i]) \o "\"")
        /\ Cardinality(hs) =
               Cardinality(UNION {{<<k, i>> : i \in DOMAIN r.Headers[k]} :
                                     k \in DOMAIN r.Headers})
        /\ hs # {} => Min(hs) = 1
        /\ (hs # {} /\ body # {}) => Max(hs) < Min(body)

\* C8: every command GenerateCurlCommand returns is curl, then -k exactly when
\* the descriptor is insecure, then -X METHOD, then the quoted URL with the
\* encoded query parameters, then one -H per header value, then the body
\* section; for the descriptors of the tests the command is the string the
\* tests expect, and with the insecure flag it is that string with -k after
\* curl. (The empty string is returned for an open form file without a name.)
C8_CurlPiecesInOrder ==
    \A n \in DOMAIN curlOut :
        /\ curlOut[n] # "" => InFixedOrder(curlReq, curlOut[n])
        /\ curlOut[n] = "" => \E f \in DOMAIN curlReq.FormFile :
                                  curlReq.FormFile[f] \in UnnamedFiles
        /\ curlReq = TestRequest => curlOut[n] = ExpectedCurlCommand
        /\ curlReq = TestRequestInsecure => curlOut[n] = ExpectedCurlCommandInsecure
        /\ curlReq = [TestRequest EXCEPT !.insecure = TRUE] =>
               curlOut[n] = "curl -k" \o SubSeq(ExpectedCurlCommand, 5,
                                                Len(ExpectedCurlCommand))

\* The insecure descriptor of the tests has been rendered
C8_Witness ==
    /\ curlReq = TestRequestInsecure
    /\ Len(curlOut) > 0
    /\ curlOut[1] = ExpectedCurlCommandInsecure

\* C9: every rendering of one descriptor is the same string, and the multipart
\* descriptor of the tests renders file1 before file2, as the test expects.
C9_RenderingIsDeterministic ==
    /\ \A i, j \in DOMAIN curlOut : curlOut[i] = curlOut[j]
    /\ curlReq = TestRequestMultipart =>
           \A i \in DOMAIN curlOut : curlOut[i] = ExpectedCurlCommandMultipart

-----------------------------------------------------------------------------
\* Query parameters set one by one and from an object
NextIface ==
    \/ process = "running" /\ \E k \in QueryKeys, v \in QueryStrings : SetQueryParam(k, v)
    \/ process = "running" /\ \E p \in IfaceArgs : SetQueryParamFromInterface(p)

SpecIface == Init /\ [][NextIface]_vars

\* The object does not serialize into a JSON object
NotAnObject(p) == p.kind \in {"number", "slice", "chan"}

\* C11: a call of SetQueryParamFromInterface with an object that does not
\* serialize into a flat JSON object leaves the process running and the query
\* parameters as they were.
C11_BadObjectLeavesProcessRunning ==
    [][\A p \in IfaceArgs :
           NotAnObject(p) /\ SetQueryParamFromInterface(p) =>
               process' = "running" /\ queryParams' = queryParams]_vars

-----------------------------------------------------------------------------
\* A client used again: builder calls before and after dispatches
NextReuse ==
    \/ pc = "idle" /\ \E k \in FormFields : SetFormFilePath(k, "/tmp/a.txt")
    \/ pc = "idle" /\ \E m \in {EmptyMap, [k \in {"field1"} |-> "value1"]} : SetFormData(m)
    \/ pc = "idle" /\ SetFormFile("file2", "osfile")
    \/ pc = "idle" /\ SetHeader("X-Test", "text/plain")
    \/ pc = "idle" /\ Insecure
    \/ Get("/test")
    \/ Post("/test", Some([kind |-> "map", k |-> "key", v |-> "value"]))
    \/ Transport([ok |-> TRUE, StatusCode |-> 200, Body |-> "{\"message\": \"success\"}"])
    \/ RunConsumer
    \/ ReadAndDecode
    \/ Return

SpecReuse == Init /\ [][NextReuse]_vars

\* GenerateCurlCommand on d, its range loops taking the keys in sorted order
CurlOf(d) ==
    RenderCurl(d, SortedKeys(DOMAIN d.Headers), SortedKeys(DOMAIN d.FormFilePath),
               SortedKeys(DOMAIN d.FormData), SortedKeys(DOMAIN d.FormFile))

\* C12: the descriptor of a returned Response reads now as it read when the
\* Response was returned, in every field, whatever builder calls followed,
\* and GenerateCurlCommand on it returns the same string.
C12_DescriptorIsImmutable ==
    Returned /\ ret[1].resp # None =>
        LET d == ret[1].resp[1].Request
        IN  /\ Attached(d) = d
            /\ CurlOf(Attached(d)) = CurlOf(d)

-----------------------------------------------------------------------------
\* A Content-Type set on the client, then form inputs of each kind
NextOverride ==
    \/ Configuring /\ \E v \in HeaderValues : SetHeader("Content-Type", v)
    \/ Configuring /\ \E m \in SmallMaps({"content-type", "X-Test"}, {"text/plain"}) :
                          SetHeaders(m)
    \/ Configuring /\ SetFormFilePath("file1", "/tmp/a.txt")
    \/ Configuring /\ SetFormData([k \in {"field1"} |-> "value1"])
    \/ Configuring /\ SetFormFile("file2", "osfile")
    \/ Get("/test")
    \/ \E b \in BodyArgs : Post("/test", b) \/ Put("/test", b) \/ Patch("/test", b)
    \/ Transport([ok |-> TRUE, StatusCode |-> 200, Body |-> "{\"message\": \"success\"}"])
    \/ RunConsumer
    \/ ReadAndDecode
    \/ Return

SpecOverride == Init /\ [][NextOverride]_vars

\* C13: with a form input of any kind, the request carries the generated
\* multipart Content-Type, boundary included, and no other Content-Type value,
\* whatever Content-Type was set on the client.
C13_MultipartContentTypeOverrides ==
    Dispatched /\ HasFormInputs => SentContentType = <<FormDataContentType>>

-----------------------------------------------------------------------------
\* Dispatches that fail before the handler runs, on a client with an
\* interceptor, a hook and a consumer
NextAbort ==
    \/ Configuring /\ UseMiddleware(<<"pass">>)
    \/ Configuring /\ UseHook(<<"observe">>)
    \/ Configuring /\ Stream(Some("read"))
    \/ Configuring /\ \E k \in FormFields, p \in FormPaths : SetFormFilePath(k, p)
    \/ Configuring /\ \E f \in OpenFiles : SetFormFile("file1", f)
    \/ \E e \in Endpoints : Get(e)
    \/ \E e \in Endpoints, b \in BodyArgs : Post(e, b)
    \/ Serve

SpecAbort == Init /\ [][NextAbort]_vars

\* A form file path that is not a readable file, or an open form file that is
\* not an *os.File
BadFormInput ==
    \/ \E k \in DOMAIN formFilePath : FileSystem[formFilePath[k]].kind # "file"
    \/ \E k \in DOMAIN formFile : formFile[k] \notin OsFiles

\* The dispatch returned (nil, err) and nothing of the handler chain ran
Aborted ==
    /\ ret[1].resp = None
    /\ ret[1].err # None
    /\ trace = <<>>
    /\ rawResp = None /\ resp = None

\* C14: a dispatch whose body preparation or request construction fails
\* returns a nil Response and a non-nil error, and runs no interceptor
\* handler, no network call, no hook and no streaming consumer; a form file
\* that cannot be opened or read, or an open file that is rejected, is such a
\* failure.
C14_FailedPreparationAborts ==
    /\ Returned /\ failure \in {"form", "serialize", "construct"} => Aborted
    /\ Returned /\ BadFormInput => Aborted

\* A dispatch has failed on a form file, on a client with an interceptor, a
\* hook and a consumer
C14_Witness ==
    /\ Returned /\ failure = "form" /\ Aborted
    /\ \E k \in DOMAIN formFilePath : FileSystem[formFilePath[k]].kind = "none"
    /\ Len(middleware) > 0 /\ Len(hooks) > 0 /\ streamHandler # None

-----------------------------------------------------------------------------
\* How many times the transport was invoked in the dispatch
NetworkCalls == Cardinality({i \in DOMAIN trace : trace[i].ev = "network"})

\* C15: in every dispatch, whatever the retry count of the client, the
\* transport is invoked at most once, also when the invocation fails.
C15_NeverRetries == NetworkCalls <= 1

\* A dispatch on a client with a retry count has failed in the transport
C15_Witness ==
    /\ Returned /\ failure = "transport"
    /\ retries > 0
    /\ NetworkCalls = 1

-----------------------------------------------------------------------------
\* A client configured in every field, then dispatches that succeed and fail
NextFrame ==
    \/ Configuring /\ SetHeader("X-Test", "text/plain")
    \/ Configuring /\ SetQueryParam("key", "value")
    \/ Configuring /\ \E p \in {"/tmp/a.txt", "/tmp/none"} : SetFormFilePath("file1", p)
    \/ Configuring /\ SetFormData([k \in {"field1"} |-> "value1"])
    \/ Configuring /\ middleware = <<>> /\ UseMiddleware(<<"pass">>)
    \/ Configuring /\ hooks = <<>> /\ UseHook(<<"observe">>)
    \/ Configuring /\ SetOutput(Some("target"))
    \/ Configuring /\ \E k \in {"read", "fail"} : Stream(Some(k))
    \/ Configuring /\ Insecure
    \/ Get("/test")
    \/ \E b \in BodyArgs : Post("/test", b)
    \/ Enter
    \/ Transport([ok |-> FALSE, StatusCode |-> 0, Body |-> ""])
    \/ Transport([ok |-> TRUE, StatusCode |-> 200, Body |-> "{\"message\": \"success\"}"])
    \/ RunHook
    \/ RunConsumer
    \/ ReadAndDecode
    \/ Leave
    \/ Return

SpecFrame == Init /\ [][NextFrame]_vars

-----------------------------------------------------------------------------
\* C17: every file writeFormData opened for a form file path is closed once it
\* has returned, whether it returned nil or an error.
C17_EncoderClosesItsFiles ==
    pc = "idle" => \A i \in DOMAIN fds : fds[i].closed

\* writeFormData has opened a file and then failed: on a later path that is
\* missing or a directory, or on an open file it rejects
C17_Witness ==
    /\ Returned /\ failure = "form"
    /\ Len(fds) > 0
    /\ \/ \E k \in DOMAIN formFilePath : FileSystem[formFilePath[k]].kind = "none"
       \/ \E k \in DOMAIN formFile : formFile[k] \notin OsFiles

-----------------------------------------------------------------------------
\* The steps of the handler after the network call, in the order they
\* happened: the hooks by their place in c.hooks, the consumer, the reading of
\* the body, the decoding
HandlerSteps ==
    LET steps == SelectSeq(trace, LAMBDA e : e.ev \in {"hook", "stream", "read", "decode"})
    IN  [j \in DOMAIN steps |->
            IF steps[j].ev = "hook" THEN <<"hook", steps[j].i>> ELSE <<steps[j].ev, 0>>]

\* The steps a dispatch whose network call succeeded goes through: a consumer
\* that returns an error ends them
StepsInOrder ==
    [i \in DOMAIN hooks |-> <<"hook", i>>]
        \o (IF streamHandler # None THEN << <<"stream", 0>> >> ELSE <<>>)
        \o (IF failure = "stream" THEN <<>>
            ELSE << <<"read", 0>> >>
                    \o (IF output # None THEN << <<"decode", 0>> >> ELSE <<>>))

\* C18: after a network call that succeeded, with any status code, every hook
\* runs once, in registration order, then the consumer if there is one, then
\* the body is read, then it is decoded if there is an output target; without
\* a successful network call no hook runs; the dispatch does not return
\* before the consumer has.
C18_HandlerStepsInOrder ==
    pc # "idle" \/ Returned =>
        /\ rawResp = None => HandlerSteps = <<>>
        /\ rawResp # None =>
               /\ Len(HandlerSteps) <= Len(StepsInOrder)
               /\ HandlerSteps = SubSeq(StepsInOrder, 1, Len(HandlerSteps))
        /\ (Returned /\ rawResp # None) => HandlerSteps = StepsInOrder

\* A dispatch answered 404 has gone through two hooks, a consumer, the
\* reading and the decoding
C18_Witness ==
    /\ Returned /\ rawResp # None /\ rawResp[1].StatusCode = 404
    /\ Len(hooks) = 2 /\ streamHandler # None /\ output # None
    /\ Len(HandlerSteps) = 5

-----------------------------------------------------------------------------
\* The code of an interceptor that has not yet called next, or of a hook, is
\* running: it holds the client and can make builder calls on it
InCallback ==
    \/ pc = "serve" /\ depth >= 1
    \/ pc = "hooks" /\ hookQueue # Indexed(hooks)

\* Dispatches whose interceptors and hooks make builder calls on the client
NextReentrant ==
    \/ Configuring /\ UseMiddleware(<<"pass">>)
    \/ Configuring /\ UseHook(<<"observe">>)
    \/ Configuring /\ Stream(Some("skip"))
    \/ InCallback /\ UseHook(<<"observe">>)
    \/ InCallback /\ Stream(Some("skip"))
    \/ InCallback /\ SetOutput(Some("target"))
    \/ InCallback /\ SetFormData([k \in {"field1"} |-> "value1"])
    \/ InCallback /\ Insecure
    \/ Get("/test")
    \/ Serve

SpecReentrant == Init /\ [][NextReentrant]_vars

\* The number of steps of the given kind in the dispatch
StepCount(ev) == Cardinality({i \in DOMAIN trace : trace[i].ev = ev})

\* C19: a dispatch that went through goes by the configuration its client had
\* when it started, whatever builder calls were made during it: that many
\* hooks ran, the consumer ran if there was one then, the body was decoded if
\* there was an output target then, and the descriptor has the form inputs
\* and the insecure flag of the request that was sent.
C19_ConfigurationReadOnce ==
    Returned /\ call # None /\ failure = "" /\ rawResp # None =>
        LET cfg == call[1].cfg
            d   == ret[1].resp[1].Request
        IN  /\ StepCount("hook") = Len(cfg.hooks)
            /\ StepCount("stream") = (IF cfg.streamHandler # None THEN 1 ELSE 0)
            /\ StepCount("decode") = (IF cfg.output # None THEN 1 ELSE 0)
            /\ ret[1].resp[1].Output = cfg.output
            /\ d.FormFilePath = cfg.formFilePath
            /\ d.FormData = cfg.formData
            /\ d.FormFile = cfg.formFile
            /\ d.insecure = cfg.insecure

-----------------------------------------------------------------------------
\* The places in c.middleware of the interceptors whose handler returned
\* without calling next in the dispatch
ShortCircuited == {trace[i].n : i \in {j \in DOMAIN trace : trace[j].ev = "short"}}

\* C20: once the handler of an interceptor has returned without calling its
\* next handler, the dispatch has no network call, no hook, no consumer, no
\* reading and no decoding, no handler of an interceptor registered after that
\* one has run, and the dispatch goes on to return a Response to the caller.
C20_ShortCircuitSkipsTheRest ==
    \A k \in ShortCircuited :
        /\ \A i \in DOMAIN trace :
               /\ trace[i].ev \notin {"network", "hook", "stream", "read", "decode"}
               /\ trace[i].ev \in {"before", "short", "after"} => trace[i].n <= k
        /\ rawResp = None /\ request = ZeroRequest
        /\ pc # "idle" => pc = "unwind" /\ ENABLED (Leave \/ Return)
        /\ pc = "idle" => Returned /\ ret[1].err = None /\ ret[1].resp # None

\* The first of two interceptors did not call next, with a hook, a consumer
\* and an output target registered, and the dispatch has returned
C20_Witness ==
    /\ Returned /\ ShortCircuited = {1}
    /\ middleware = <<"short", "pass">>
    /\ hooks # <<>> /\ streamHandler # None /\ output # None

-----------------------------------------------------------------------------
\* The answers of a server to a caller that decodes them: valid JSON that fits
\* the target, valid JSON with a member that does not fit, and no JSON
DecodeOutcomes ==
    {[ok |-> FALSE, StatusCode |-> 0, Body |-> ""]}
        \cup {[ok |-> TRUE, StatusCode |-> 200, Body |-> b] :
                b \in ServerBodies \cup {"{\"message\": \"success\"" \o Misfit}}

\* Dispatches with and without an output target, with each way of failing
NextDecode ==
    \/ Configuring /\ \E o \in {None, Some("target")} : SetOutput(o)
    \/ Configuring /\ \E k \in InterceptorKinds : UseMiddleware(<<k>>)
    \/ Configuring /\ \E k \in ConsumerKinds : Stream(Some(k))
    \/ Get("/test")
    \/ Enter
    \/ \E outcome \in DecodeOutcomes : Transport(outcome)
    \/ RunConsumer
    \/ ReadAndDecode
    \/ Leave
    \/ Return

SpecDecode == Init /\ [][NextDecode]_vars

\* C21: a step of a dispatch writes to the caller's output target only if an
\* output target is set and the decoding of the response body succeeded, so
\* after a failed transport, a failed consumer, a short-circuit or a failed
\* decoding the target holds what it held; and a decoding fails only if an
\* output target is set.
C21_TargetWrittenOnlyOnSuccess ==
    [][/\ target' # target => output # None /\ failure' = ""
       /\ (failure' = "decode" /\ failure # "decode") => output # None]_vars

-----------------------------------------------------------------------------
\* The descriptor has a form file path, a form field or an open form file
HasMultipartInputs(r) ==
    DOMAIN r.FormFilePath # {} \/ DOMAIN r.FormData # {} \/ DOMAIN r.FormFile # {}

\* C22: a command GenerateCurlCommand returns for a descriptor with multipart
\* inputs ends with one -F per input, the file paths first, then the fields,
\* then the open files, and has no --data-raw; for a descriptor without them
\* and with a non-empty body of a POST, PUT or PATCH it has one --data-raw and
\* no -F; it never has --data-raw with an empty body, nor both kinds.
C22_BodySectionIsOneKind ==
    \A n \in DOMAIN curlOut :
        curlOut[n] # "" =>
            LET r   == curlReq
                cmd == curlOut[n]
                raw == Occurrences(cmd, " --data-raw '")
                fs  == Occurrences(cmd, " -F \"")
            IN  /\ HasMultipartInputs(r) =>
                       /\ raw = {}
                       /\ \E ordP \in Orders(DOMAIN r.FormFilePath),
                             ordD \in Orders(DOMAIN r.FormData),
                             ordF \in Orders(DOMAIN r.FormFile) :
                              HasSuffix(cmd, PathFlags(r.FormFilePath, ordP)
                                                 \o DataFlags(r.FormData, ordD)
                                                 \o FileFlags(r.FormFile, ordF).s)
                       /\ Cardinality(fs) = Cardinality(DOMAIN r.FormFilePath)
                                                + Cardinality(DOMAIN r.FormData)
                                                + Cardinality(DOMAIN r.FormFile)
                /\ (~HasMultipartInputs(r) /\ r.Body # ""
                        /\ r.Method \in {"POST", "PUT", "PATCH"}) =>
                       /\ Cardinality(raw) = 1 /\ fs = {}
                       /\ HasSuffix(cmd, " --data-raw '" \o r.Body \o "'")
                /\ r.Body = "" => raw = {}
                /\ raw = {} \/ fs = {}

-----------------------------------------------------------------------------
\* The part an open form file must give: named after the field, with the
\* file's name and contents
OpenFilePart(field) ==
    [name |-> field, filename |-> FileName(formFile[field]), file |-> TRUE,
     content |-> OsFileContent(formFile[field])]

\* C23: a dispatch with open form files (and form file paths that can all be
\* read) fails in the encoder if one of the files has no Name method, and if
\* every one has a name and is open and unread, it sends one part per open
\* file, named after its field, with the file's contents.
C23_NamedOpenFilesAreEncoded ==
    [][(pc = "idle" /\ clientVars' = clientVars /\ DOMAIN formFile # {}
            /\ \A k \in DOMAIN formFilePath : FileSystem[formFilePath[k]].kind = "file") =>
          /\ (\E f \in DOMAIN formFile : formFile[f] \in UnnamedFiles) =>
                 failure' = "form" /\ ret' # None /\ ret'[1].resp = None
          /\ (\A f \in DOMAIN formFile :
                  /\ formFile[f] \in NamedFiles \cup OsFiles
                  /\ formFile[f] \in OsFiles =>
                         ~handles[formFile[f]].closed /\ handles[formFile[f]].pos = 0) =>
                 /\ call' # None
                 /\ \A f \in DOMAIN formFile :
                        Copies(call'[1].req.Body[1].parts, OpenFilePart(f)) = 1]_vars

-----------------------------------------------------------------------------
\* C24: the descriptor of every Response a dispatch returns has the method,
\* the URL and the headers of the request built for that dispatch, also when
\* the network call, the consumer or the decoding failed, or an interceptor
\* did not call next.
C24_DescriptorDescribesTheRequest ==
    Returned /\ ret[1].resp # None =>
        LET d == ret[1].resp[1].Request
        IN  /\ d.Method = call[1].method
            /\ d.URL = URLString(call[1].req)
            /\ d.Headers = call[1].req.Header

-----------------------------------------------------------------------------
\* C25: every dispatch of a client whose open form files are *os.File values
\* (and whose form file paths can be read), the first and each one after it,
\* encodes the files, makes its network call and returns a Response: a
\* dispatch leaves the caller's files open and unread for the next one.
C25_OpenFileSurvivesDispatch ==
    (/\ Returned /\ DOMAIN formFile # {}
     /\ \A f \in DOMAIN formFile : formFile[f] \in OsFiles
     /\ \A k \in DOMAIN formFilePath : FileSystem[formFilePath[k]].kind = "file") =>
        /\ ret[1].err = None /\ call # None
        /\ NetworkCalls = 1
        /\ \A f \in DOMAIN formFile :
               Copies(call[1].req.Body[1].parts, OpenFilePart(f)) = 1

-----------------------------------------------------------------------------
\* C26: no step sets the insecure flag back to false; the network call of a
\* dispatch goes out on a transport that does not verify certificates exactly
\* when the flag is set, and on the default one when it never was; and the
\* curl command of the descriptor of the Response a dispatch returns has -k
\* exactly when the flag is set.
C26_InsecureIsMonotone ==
    [][/\ insecure => insecure'
       /\ NetworkCalls' > NetworkCalls =>
              transport' = (IF insecure THEN "insecure" ELSE "default")
       /\ (pc = "unwind" /\ pc' = "idle" /\ ret'[1].resp # None) =>
              (HasPrefix(CurlOf(ret'[1].resp[1].Request), "curl -k ") <=> insecure)]_vars

-----------------------------------------------------------------------------
\* The URL between the quotes that follow -X METHOD in the command cmd
RenderedURL(r, cmd) ==
    LET method == "curl" \o (IF r.insecure THEN " -k" ELSE "") \o " -X " \o r.Method
                      \o " \""
        close  == Min({i \in Occurrences(cmd, "\"") : i > Len(method)})
    IN  SubSeq(cmd, Len(method) + 1, close - 1)

\* C27: for a GET or DELETE with query parameters that went through, every
\* rendering of the descriptor of its Response has the URL that was requested
\* followed by ? and the query string that was sent, once: the descriptor's
\* URL has the query string and its query parameter field is empty.
C27_QueryRenderedOnce ==
    (/\ Returned /\ ret[1].resp # None /\ failure = ""
     /\ call[1].method \in {"GET", "DELETE"} /\ DOMAIN queryParams # {}) =>
        LET d    == ret[1].resp[1].Request
            sent == call[1].req.RawQuery
        IN  /\ DOMAIN d.QueryParams = {}
            /\ d.URL = call[1].req.Path \o "?" \o sent
            /\ \A ordH \in Orders(DOMAIN d.Headers), ordD \in Orders(DOMAIN d.FormData) :
                   LET cmd == RenderCurl(d, ordH, <<>>, ordD, <<>>)
                       url == RenderedURL(d, cmd)
                   IN  /\ url = call[1].req.Path \o "?" \o sent
                       /\ Cardinality(Occurrences(cmd, "?")) = 1
                       /\ Cardinality(Occurrences(cmd, sent)) = 1
                       /\ ParseQuery(SubSeq(url, IndexOf(url, "?") + 1, Len(url)))
                              = queryParams

\* A DELETE with the parameters key=value and "a b"="x&y" went through, and
\* the command of its descriptor has the query string
C27_Witness ==
    /\ Returned /\ ret[1].resp # None /\ failure = ""
    /\ call[1].method = "DELETE"
    /\ DOMAIN queryParams = {"key", "a b"}
    /\ queryParams["key"] = <<"value">> /\ queryParams["a b"] = <<"x&y">>
    /\ Contains(CurlOf(ret[1].resp[1].Request), "/test?a+b=x%26y&key=value\"")

=============================================================================
